---- MODULE Spec2Model ----
(***************************************************************************)
(* A model of the AGS processor core: the AGS4_to_dict line parser and its *)
(* table view, the multi-file consolidator concat_ags_files, the depth     *)
(* interval merger combine_ags_data, the rockhead scan and the Q-value     *)
(* engine.  Every component has its own specification (SpecParse, ...)     *)
(* over the shared variables; a component's variables stay at their        *)
(* initial value under the other specifications.                           *)
(***************************************************************************)
EXTENDS Integers, Sequences, FiniteSets, TLC

VARIABLES
    p_file,      \* the lines of the file read so far (each a list of fields)
    p_data,      \* AGS4_to_dict: data[group][heading] -> list of values
    p_headings,  \* AGS4_to_dict: headings[group] -> list of heading names
    p_group,     \* AGS4_to_dict: group, <<>> for None, <<name>> otherwise
    p_row,       \* AGS4_to_dict: row, the heading-line counter of the group
    p_status,    \* "reading" | "returned" | "raised" | "dataframe" | "validated"
    p_exc,       \* the exception AGS4_to_dict raised, "" when none
    p_df,        \* AGS4_to_dataframe: group -> table (columns of equal length)
    p_result,    \* _parse_with_validation: [groups, warnings]
    q_kind,      \* Q-value engine: the call in progress or finished
    q_in,        \* its arguments
    q_i,         \* calculate_q_values_bulk: rows done by the iterrows loop
    q_out,       \* its result so far
    r_kind,      \* calculate_rockhead: "idle" | "next_hole" | "scan" | "done" | "raised"
    r_in,        \* its arguments: the table and the thresholds
    r_df,        \* df, with the columns WETH_GRAD_NUM, rock_mat and rock_TCR
    r_holes,     \* the hole ids the loop has still to visit
    r_hole,      \* hole_id, <<>> outside the loop
    r_rows,      \* the rows of hole_data the scan has still to visit
    r_run,       \* current_run_start (<<>> for None) and current_run_length
    r_depths,    \* rockhead_depths: hole id -> depth or 'Not Found'
    c_kind,      \* concat_ags_files: "idle" | "loop" | "done"
    c_in,        \* its arguments: uploaded_files and giu_number
    c_idx,       \* idx, the 0-based position of the next file
    c_combined,  \* combined: group name -> list of stamped tables
    c_out,       \* the returned dictionary: group name -> table
    m_kind,      \* combine_ags_data: "idle" | "files" | "holes" | "done" | "raised"
    m_in,        \* its arguments: uploaded_excel_files and selected_groups
    m_file,      \* the number of files the outer loop has finished
    m_bh,        \* bh, the 0-based position of the next row of the HOLE sheet
    m_df,        \* df, the master table; row_index is its length
    a_self,      \* the AGSProcessor: tables, file_data, errors, processed_files, file_versions
    a_kind,      \* read_multiple_files: "idle" | "loop" | "returned"
    a_in,        \* its arguments: filepaths and skip_invalid
    a_i,         \* the number of filepaths the loop has finished
    a_results,   \* results: file name -> groups
    a_reads,     \* the number of read_file calls made so far
    a_summary,   \* the last result of get_file_summary, <<>> before the first
    h_heap,      \* the DataFrame objects alive, by reference 1, 2, ...
    h_op,        \* the last call on them
    h_arg,       \* the reference it was given, 0 before the first call
    h_ret        \* the reference it returned, 0 when it raised

pvars == <<p_file, p_data, p_headings, p_group, p_row, p_status, p_exc, p_df, p_result>>

qvars == <<q_kind, q_in, q_i, q_out>>

rvars == <<r_kind, r_in, r_df, r_holes, r_hole, r_rows, r_run, r_depths>>

cvars == <<c_kind, c_in, c_idx, c_combined, c_out>>

mvars == <<m_kind, m_in, m_file, m_bh, m_df>>

avars == <<a_self, a_kind, a_in, a_i, a_results, a_reads, a_summary>>

hvars == <<h_heap, h_op, h_arg, h_ret>>

vars == <<pvars, qvars, rvars, cvars, mvars, avars, hvars>>

\* what the parser leaves alone
nonp == <<qvars, rvars, cvars, mvars, avars, hvars>>

\* what the Q-value engine leaves alone
nonq == <<pvars, rvars, cvars, mvars, avars, hvars>>

\* what the rockhead engine leaves alone
nonr == <<pvars, qvars, cvars, mvars, avars, hvars>>

\* what the consolidator leaves alone
nonc == <<pvars, qvars, rvars, mvars, avars, hvars>>

\* what the depth-interval merger leaves alone
nonm == <<pvars, qvars, rvars, cvars, avars, hvars>>

\* what the AGSProcessor leaves alone
nona == <<pvars, qvars, rvars, cvars, mvars, hvars>>

\* what a call on the DataFrame objects leaves alone
nonh == <<pvars, qvars, rvars, cvars, mvars, avars>>

-----------------------------------------------------------------------------
(* Text.  A field is a sequence of one-character strings, so that          *)
(* startswith, slicing and += are the operations the code performs.        *)

sHOLE    == <<"H", "O", "L", "E">>
sHOLE_ID == <<"H", "O", "L", "E", "_", "I", "D">>
sREMARKS == <<"R", "E", "M", "A", "R", "K", "S">>
sGEOL    == <<"G", "E", "O", "L">>
sBH1     == <<"B", "H", "1">>
sabc     == <<"a", "b", "c">>
sdef     == <<"d", "e", "f">>
sxyz     == <<"x", "y", "z">>
sCONT    == <<"<", "C", "O", "N", "T", ">">>
sUNITS   == <<"<", "U", "N", "I", "T", "S", ">">>
sm       == <<"m">>
sEmpty   == <<>>
sGROUP   == <<"G", "R", "O", "U", "P">>
sHEADING == <<"H", "E", "A", "D", "I", "N", "G">>
sUNIT    == <<"U", "N", "I", "T">>
sTYPE    == <<"T", "Y", "P", "E">>
sDATA    == <<"D", "A", "T", "A">>
sX       == <<"X">>

Star(s) == <<"*">> \o s

StartsWith(s, pre) == Len(s) >= Len(pre) /\ SubSeq(s, 1, Len(pre)) = pre

\* s[n:]
Drop(s, n) == IF Len(s) <= n THEN <<>> ELSE SubSeq(s, n + 1, Len(s))

Digit(d) == <<"0", "1", "2", "3", "4", "5", "6", "7", "8", "9">>[d + 1]

RECURSIVE IntToText(_)
\* str(n) for n >= 0
IntToText(n) == IF n < 10 THEN <<Digit(n)>> ELSE IntToText(n \div 10) \o <<Digit(n % 10)>>

\* the lines a file is made of
MaxLines == 5

Lines ==
    { <<Star(Star(sHOLE))>>,                       \* **HOLE
      <<Star(Star(sGEOL))>>,                       \* **GEOL
      <<Star(sHOLE_ID), Star(sREMARKS)>>,          \* *HOLE_ID,*REMARKS
      <<Star(sREMARKS)>>,                          \* *REMARKS
      <<sBH1, sabc>>,                              \* "BH1","abc"
      <<sBH1>>,                                    \* "BH1"          (short)
      <<sBH1, sabc, sxyz>>,                        \* "BH1","abc","xyz" (long)
      <<sCONT, sdef>>,                             \* <CONT>,"def"
      <<sCONT, sEmpty, sdef>>,                     \* <CONT>,"","def"
      <<sCONT>>,                                   \* <CONT>         (no value)
      <<sUNITS, sm>>,                              \* <UNITS>,"m"
      <<sGROUP, sHOLE>>,                           \* "GROUP","HOLE"
      <<sHEADING, sHOLE_ID, sREMARKS>>,            \* "HEADING","HOLE_ID","REMARKS"
      <<sUNIT, sEmpty, sm>>,                       \* "UNIT","","m"
      <<sTYPE, sX, sX>>,                           \* "TYPE","X","X"
      <<sDATA, sBH1, sabc>>,                       \* "DATA","BH1","abc"
      <<sEmpty>>,                                  \* blank line, one empty field
      <<>> }                                       \* completely empty line

-----------------------------------------------------------------------------
(* AGS4_to_dict                                                            *)

Put(f, k, v) == (k :> v) @@ f

RECURSIVE CountBefore(_, _, _)
\* occurrences of item in hs[1..i-1]
CountBefore(hs, item, i) ==
    IF i <= 1 THEN 0
    ELSE CountBefore(hs, item, i - 1) + (IF hs[i - 1] = item THEN 1 ELSE 0)

\* the deduplication loop: seen[item] counts the earlier occurrences
DedupHeadings(hs) ==
    [i \in 1..Len(hs) |->
        LET k == CountBefore(hs, hs[i], i)
        IN  IF k > 0 THEN hs[i] \o <<"_">> \o IntToText(k) ELSE hs[i]]

RECURSIVE SetDefaults(_, _, _)
\* for h in headings[group]: data[group].setdefault(h, [])
SetDefaults(cols, hs, i) ==
    IF i > Len(hs) THEN cols
    ELSE SetDefaults(IF hs[i] \in DOMAIN cols THEN cols ELSE Put(cols, hs[i], <<>>), hs, i + 1)

\* a plausible slip of line 129: "=" for "+="
ContOverwrite(cell, v) == v

\* "data[group][col][-1] += temp[j]"
ContAppend(cell, v) == cell \o v

RECURSIVE ContLoop(_, _, _, _)
\* the loop over j of a <CONT> line; j is 0-based as in the code
ContLoop(cols, hs, temp, j) ==
    IF j >= Len(temp) THEN [exc |-> "", cols |-> cols]
    ELSE IF j >= Len(hs) THEN [exc |-> "ValueError", cols |-> cols]
    ELSE LET col == hs[j + 1]
         IN  IF col \notin DOMAIN cols THEN [exc |-> "KeyError", cols |-> cols]
             ELSE IF cols[col] = <<>> THEN [exc |-> "ValueError", cols |-> cols]
             ELSE LET old == cols[col]
                      new == [old EXCEPT ![Len(old)] = ContAppend(old[Len(old)], temp[j + 1])]
                  IN  ContLoop(Put(cols, col, new), hs, temp, j + 1)

RECURSIVE DataLoop(_, _, _, _)
\* the loop over j of a data line; j is 0-based as in the code
DataLoop(cols, hs, temp, j) ==
    IF j >= Len(temp) THEN [exc |-> "", cols |-> cols]
    ELSE IF j >= Len(hs) THEN [exc |-> "IndexError", cols |-> cols]
    ELSE LET col == hs[j + 1]
         IN  IF col \notin DOMAIN cols THEN [exc |-> "KeyError", cols |-> cols]
             ELSE DataLoop(Put(cols, col, Append(cols[col], temp[j + 1])), hs, temp, j + 1)

IsGroupLine(temp)   == Len(temp) > 0 /\ StartsWith(temp[1], <<"*", "*">>)
IsHeadingLine(temp) == Len(temp) > 0 /\ ~IsGroupLine(temp) /\ StartsWith(temp[1], <<"*">>)
IsContLine(temp)    == Len(temp) > 0 /\ temp[1] = sCONT
IsBlankLine(temp)   == Len(temp) = 1 /\ temp[1] = sEmpty
IsDataLine(temp)    ==
    Len(temp) > 0 /\ ~IsGroupLine(temp) /\ ~IsHeadingLine(temp)
                  /\ ~IsContLine(temp) /\ ~IsBlankLine(temp)

Reading == p_status = "reading" /\ Len(p_file) < MaxLines

\* a plausible slip of the raise statements: the line passed over
PassOver(e, temp) ==
    /\ p_file' = Append(p_file, temp)
    /\ UNCHANGED <<p_status, p_exc, p_data, p_headings, p_group, p_row, p_df, p_result>>

\* "raise ValueError(...)": the parse ends at this line
Raise(e, temp) ==
    /\ p_status' = "raised"
    /\ p_exc' = e
    /\ p_file' = Append(p_file, temp)
    /\ UNCHANGED <<p_data, p_headings, p_group, p_row, p_df, p_result>>

\* no file opened, no call made
Init ==
    /\ p_file = <<>>
    /\ p_data = <<>>
    /\ p_headings = <<>>
    /\ p_group = <<>>
    /\ p_row = 0
    /\ p_status = "reading"
    /\ p_exc = ""
    /\ p_df = <<>>
    /\ p_result = [groups |-> <<>>, warnings |-> <<>>]
    /\ q_kind = "idle"
    /\ q_in = <<>>
    /\ q_i = 0
    /\ q_out = <<>>
    /\ r_kind = "idle"
    /\ r_in = <<>>
    /\ r_df = <<>>
    /\ r_holes = <<>>
    /\ r_hole = <<>>
    /\ r_rows = <<>>
    /\ r_run = [start |-> <<>>, length |-> 0]
    /\ r_depths = <<>>
    /\ c_kind = "idle"
    /\ c_in = <<>>
    /\ c_idx = 0
    /\ c_combined = <<>>
    /\ c_out = <<>>
    /\ m_kind = "idle"
    /\ m_in = <<>>
    /\ m_file = 0
    /\ m_bh = 0
    /\ m_df = <<>>
    /\ a_self = [tables |-> <<>>, file_data |-> <<>>, errors |-> <<>>,
                 processed_files |-> <<>>, file_versions |-> <<>>]
    /\ a_kind = "idle"
    /\ a_in = <<>>
    /\ a_i = 0
    /\ a_results = <<>>
    /\ a_reads = 0
    /\ a_summary = <<>>
    /\ h_heap = <<>>
    /\ h_op = "none"
    /\ h_arg = 0
    /\ h_ret = 0

\* "if temp is None or len(temp) == 0: continue"
EmptyLine ==
    /\ UNCHANGED nonp
    /\ Reading
    /\ \E temp \in Lines :
        /\ Len(temp) = 0
        /\ p_file' = Append(p_file, temp)
    /\ UNCHANGED <<p_data, p_headings, p_group, p_row, p_status, p_exc, p_df, p_result>>

\* "if first.startswith('**')"
GroupLine ==
    /\ UNCHANGED nonp
    /\ Reading
    /\ \E temp \in Lines :
        /\ IsGroupLine(temp)
        /\ p_file' = Append(p_file, temp)
        /\ p_row' = 0
        /\ p_group' = <<Drop(temp[1], 2)>>
        /\ p_data' = Put(p_data, Drop(temp[1], 2), <<>>)
    /\ UNCHANGED <<p_headings, p_status, p_exc, p_df, p_result>>

\* "elif first.startswith('*')"
HeadingLine ==
    /\ UNCHANGED nonp
    /\ Reading
    /\ \E temp \in Lines :
        /\ IsHeadingLine(temp)
        /\ IF p_group = <<>>
           THEN Raise("ValueError", temp)
           ELSE LET g       == p_group[1]
                    cleaned == [i \in 1..Len(temp) |-> Drop(temp[i], 1)]
                    joined  == IF p_row + 1 = 1 THEN cleaned ELSE p_headings[g] \o cleaned
                    hs      == DedupHeadings(joined)
                IN  /\ p_file' = Append(p_file, temp)
                    /\ p_row' = p_row + 1
                    /\ p_headings' = Put(p_headings, g, hs)
                    /\ p_data' = Put(p_data, g, SetDefaults(p_data[g], hs, 1))
                    /\ UNCHANGED <<p_group, p_status, p_exc, p_df, p_result>>

\* "elif first == '<CONT>'"
ContLine ==
    /\ UNCHANGED nonp
    /\ Reading
    /\ \E temp \in Lines :
        /\ IsContLine(temp)
        /\ IF p_group = <<>>
           THEN Raise("ValueError", temp)
           ELSE LET g == p_group[1]
                IN  IF Len(temp) = 1
                    THEN /\ p_file' = Append(p_file, temp)
                         /\ UNCHANGED <<p_data, p_headings, p_group, p_row, p_status,
                                        p_exc, p_df, p_result>>
                    ELSE IF g \notin DOMAIN p_headings
                    THEN Raise("KeyError", temp)
                    ELSE LET r == ContLoop(p_data[g], p_headings[g], temp, 1)
                         IN  IF r.exc # ""
                             THEN Raise(r.exc, temp)
                             ELSE /\ p_file' = Append(p_file, temp)
                                  /\ p_data' = Put(p_data, g, r.cols)
                                  /\ UNCHANGED <<p_headings, p_group, p_row, p_status,
                                                 p_exc, p_df, p_result>>

\* "elif first == '' and len(temp) == 1: continue"
BlankLine ==
    /\ UNCHANGED nonp
    /\ Reading
    /\ \E temp \in Lines :
        /\ IsBlankLine(temp)
        /\ p_file' = Append(p_file, temp)
    /\ UNCHANGED <<p_data, p_headings, p_group, p_row, p_status, p_exc, p_df, p_result>>

\* "else:" DATA / UNITS lines
DataLine ==
    /\ UNCHANGED nonp
    /\ Reading
    /\ \E temp \in Lines :
        /\ IsDataLine(temp)
        /\ IF p_group = <<>>
           THEN Raise("ValueError", temp)
           ELSE LET g == p_group[1]
                IN  IF g \notin DOMAIN p_headings
                    THEN Raise("KeyError", temp)
                    ELSE LET r == DataLoop(p_data[g], p_headings[g], temp, 0)
                         IN  IF r.exc # ""
                             THEN Raise(r.exc, temp)
                             ELSE /\ p_file' = Append(p_file, temp)
                                  /\ p_data' = Put(p_data, g, r.cols)
                                  /\ UNCHANGED <<p_headings, p_group, p_row, p_status,
                                                 p_exc, p_df, p_result>>

\* the reader is exhausted: "return data, headings"
EndOfFile ==
    /\ UNCHANGED nonp
    /\ p_status = "reading"
    /\ p_status' = "returned"
    /\ UNCHANGED <<p_file, p_data, p_headings, p_group, p_row, p_exc, p_df, p_result>>

-----------------------------------------------------------------------------
(* AGS4_to_dataframe and AGSProcessor._parse_with_validation               *)

\* pd.DataFrame(data[key]) raises ValueError unless all columns are equally long
SameLength(cols) == \A c1, c2 \in DOMAIN cols : Len(cols[c1]) = Len(cols[c2])

IsNumericText(v) ==
    /\ Len(v) > 0
    /\ \A i \in 1..Len(v) : v[i] \in {"0", "1", "2", "3", "4", "5", "6", "7", "8", "9"}

RECURSIVE TextToInt(_)
TextToInt(v) ==
    IF Len(v) = 0 THEN 0
    ELSE 10 * TextToInt(SubSeq(v, 1, Len(v) - 1))
         + (CHOOSE d \in 0..9 : Digit(d) = v[Len(v)])

\* "table[1:] = table[1:].apply(pd.to_numeric, errors='ignore')": the rows from
\* the second on, column by column; a column with a non-numeric value is kept
ToNumericColumn(col) ==
    IF Len(col) >= 2 /\ \A i \in 2..Len(col) : IsNumericText(col[i])
    THEN [i \in 1..Len(col) |-> IF i >= 2 THEN [num |-> TextToInt(col[i])] ELSE col[i]]
    ELSE col

\* the fixed rename table of group names
RenameGroup(g) ==
    CASE g = <<"?", "E", "T", "H">> -> <<"W", "E", "T", "H">>
      [] g = <<"?", "L", "E", "G", "D">> -> <<"L", "E", "G", "D">>
      [] g = <<"?", "H", "O", "R", "N">> -> <<"H", "O", "R", "N">>
      [] OTHER -> g

\* the tables AGS4_to_dataframe returns for the parsed data
AGS4_to_dataframe(data) ==
    LET exported == {g \in DOMAIN data : SameLength(data[g])}
        names    == {RenameGroup(g) : g \in exported}
        Source(n) == IF \E g \in exported : g # n /\ RenameGroup(g) = n
                     THEN CHOOSE g \in exported : g # n /\ RenameGroup(g) = n
                     ELSE n
    IN  [n \in names |->
            [c \in DOMAIN data[Source(n)] |-> ToNumericColumn(data[Source(n)][c])]]

RECURSIVE ValidationPass(_, _, _, _, _)
\* the first pass of _parse_with_validation over the lines: the warnings
ValidationPass(file, i, current_group, headings, warnings) ==
    IF i > Len(file) THEN warnings
    ELSE LET row == file[i]
         IN  IF Len(row) = 0
             THEN ValidationPass(file, i + 1, current_group, headings, warnings)
             ELSE IF StartsWith(row[1], <<"*", "*">>)
             THEN ValidationPass(file, i + 1, <<Drop(row[1], 2)>>, <<>>, warnings)
             ELSE IF StartsWith(row[1], <<"*">>)
             THEN ValidationPass(file, i + 1, current_group,
                                 headings \o [k \in 1..Len(row) |-> Drop(row[k], 1)], warnings)
             ELSE IF row[1] = sCONT
             THEN ValidationPass(file, i + 1, current_group, headings, warnings)
             ELSE IF current_group # <<>> /\ current_group[1] # <<>> /\ headings # <<>>
                     /\ Len(row) # Len(headings)
             THEN ValidationPass(file, i + 1, current_group, headings,
                                 Append(warnings, [kind |-> "WARNING", line |-> i,
                                                   group |-> current_group[1],
                                                   items |-> Len(row),
                                                   headings |-> Len(headings)]))
             ELSE ValidationPass(file, i + 1, current_group, headings, warnings)

\* AGS4_to_dataframe(filepath), after AGS4_to_dict returned
ToDataframe ==
    /\ UNCHANGED nonp
    /\ p_status = "returned"
    /\ p_status' = "dataframe"
    /\ p_df' = AGS4_to_dataframe(p_data)
    /\ UNCHANGED <<p_file, p_data, p_headings, p_group, p_row, p_exc, p_result>>

\* _parse_with_validation: the warnings of the first pass, then the parser's
\* tables, or no table and an ERROR entry when the parser raised
ParseWithValidation ==
    /\ UNCHANGED nonp
    /\ p_status \in {"dataframe", "raised"}
    /\ p_status' = "validated"
    /\ LET warnings == ValidationPass(p_file, 1, <<>>, <<>>, <<>>)
       IN  p_result' =
             IF p_exc = ""
             THEN [groups |-> p_df, warnings |-> warnings]
             ELSE [groups |-> <<>>,
                   warnings |-> Append(warnings, [kind |-> "ERROR", line |-> Len(p_file),
                                                  group |-> <<>>, items |-> 0,
                                                  headings |-> 0])]
    /\ UNCHANGED <<p_file, p_data, p_headings, p_group, p_row, p_exc, p_df>>

PNext ==
    \/ EmptyLine
    \/ GroupLine
    \/ HeadingLine
    \/ ContLine
    \/ BlankLine
    \/ DataLine
    \/ EndOfFile
    \/ ToDataframe
    \/ ParseWithValidation

SpecParse == Init /\ [][PNext]_vars

-----------------------------------------------------------------------------
(* Properties of the parser                                                *)

Last(s) == s[Len(s)]

abcdef == <<"a", "b", "c", "d", "e", "f">>

RECURSIVE ContSuffix(_, _, _, _)
\* the values of a <CONT> line addressed to column c, joined left to right
ContSuffix(hs, temp, c, j) ==
    IF j > Len(temp) \/ j > Len(hs) THEN <<>>
    ELSE (IF hs[j] = c THEN temp[j] ELSE <<>>) \o ContSuffix(hs, temp, c, j + 1)

\* a step that accepted a <CONT> line
ContAccepted ==
    /\ p_status = "reading" /\ p_status' = "reading"
    /\ Len(p_file') = Len(p_file) + 1
    /\ IsContLine(Last(p_file'))
    /\ Len(Last(p_file')) > 1

\* C4: a <CONT> line appends each value after its first field onto the last
\* value of the column of the same position (string concatenation: the old
\* value stays as a prefix, nothing is overwritten and no row is added), and
\* "BH1","abc" under HOLE_ID, REMARKS followed by <CONT>,"def" gives
\* REMARKS = "abcdef".
C4_ContinuationAppends ==
    [][ContAccepted =>
        LET g    == p_group[1]
            temp == Last(p_file')
            hs   == p_headings[g]
        IN  /\ DOMAIN p_data'[g] = DOMAIN p_data[g]
            /\ \A c \in DOMAIN p_data[g] :
                 LET old == p_data[g][c]
                     new == p_data'[g][c]
                     add == ContSuffix(hs, temp, c, 2)
                 IN  /\ Len(new) = Len(old)
                     /\ \A i \in 1..Len(old) :
                          new[i] = IF i = Len(old) THEN old[i] \o add ELSE old[i]
            /\ \A j \in 2..Len(temp) :
                 LET new == Last(p_data'[g][hs[j]])
                 IN  SubSeq(new, Len(new) - Len(temp[j]) + 1, Len(new)) = temp[j]
            /\ (/\ hs = <<sHOLE_ID, sREMARKS>>
                /\ Len(p_file) > 0 /\ Last(p_file) = <<sBH1, sabc>>
                /\ temp = <<sCONT, sdef>>)
               => Last(p_data'[g][sREMARKS]) = abcdef
      ]_vars

\* C4 witness: the law's own file has been read
C4_Witness ==
    /\ p_status = "reading"
    /\ p_file = << <<Star(Star(sHOLE))>>, <<Star(sHOLE_ID), Star(sREMARKS)>>,
                   <<sBH1, sabc>>, <<sCONT, sdef>> >>
    /\ p_data[sHOLE][sREMARKS] = <<abcdef>>
    /\ p_data[sHOLE][sHOLE_ID] = <<sBH1>>

\* the last line read was accepted as a data line of the current group
DataAccepted ==
    /\ p_status = "reading"
    /\ Len(p_file) > 0
    /\ IsDataLine(Last(p_file))

\* C9: after every accepted data line all columns of the current group hold
\* the same number of values (a short line is padded with empty values).
C9_ColumnsEquallyLong ==
    DataAccepted => SameLength(p_data[p_group[1]])

\* the WARNING entries of the first pass that are about data lines
ShapeWarnings ==
    {i \in 1..Len(p_result.warnings) :
        /\ p_result.warnings[i].kind = "WARNING"
        /\ IsDataLine(p_file[p_result.warnings[i].line])}

\* C10: a data row whose field count differs from the heading count never
\* aborts parsing: the parser raises nothing, the group of the row is among the
\* tables returned, and the mismatch is recorded as a warning only.
C10_MismatchNeverAborts ==
    (p_status = "validated" /\ ShapeWarnings # {}) =>
        /\ p_exc = ""
        /\ \A i \in ShapeWarnings :
             p_result.warnings[i].group \in DOMAIN p_result.groups

\* a step that read a heading, <CONT> or data line while no group was declared
NoGroupLine ==
    /\ p_status = "reading"
    /\ p_group = <<>>
    /\ Len(p_file') = Len(p_file) + 1
    /\ \/ IsHeadingLine(Last(p_file'))
       \/ IsContLine(Last(p_file'))
       \/ IsDataLine(Last(p_file'))

\* C11: before any group line, a heading line, a <CONT> line or a data line
\* ends the parse with the parser's format error (ValueError); nothing is
\* stored from the line, no table is ever built from that parse and the
\* validated result holds no group.
C11_NoGroupFormatError ==
    [][/\ NoGroupLine =>
            /\ p_status' = "raised"
            /\ p_exc' = "ValueError"
            /\ p_data' = p_data /\ p_headings' = p_headings
       /\ (p_exc' # "" /\ p_status' \in {"raised", "validated"}) =>
            /\ p_df' = <<>>
            /\ p_result'.groups = <<>>
      ]_vars

\* C11 witness: a <CONT> line came first, and the failed parse was reported
C11_Witness ==
    /\ p_status = "validated"
    /\ p_exc = "ValueError"
    /\ p_group = <<>>
    /\ IsContLine(Last(p_file))
    /\ p_result.groups = <<>>

\* the current group holds no data row: every column is empty
NoRowToExtend ==
    \A c \in DOMAIN p_data[p_group[1]] : p_data[p_group[1]][c] = <<>>

\* the headings declared for the current group
DeclaredHeadings ==
    IF p_group[1] \in DOMAIN p_headings THEN p_headings[p_group[1]] ELSE <<>>

\* a step that read a <CONT> line inside a group
ContRead ==
    /\ p_status = "reading"
    /\ p_group # <<>>
    /\ Len(p_file') = Len(p_file) + 1
    /\ IsContLine(Last(p_file'))

\* C12: a <CONT> line ends the parse with the format error (ValueError)
\* whenever the current group has no data row to extend, and whenever it
\* brings more values than there are headings for them.
C12_ContFormatError ==
    [][(/\ ContRead
        /\ \/ NoRowToExtend
           \/ Len(Last(p_file')) > Len(DeclaredHeadings))
       => (p_status' = "raised" /\ p_exc' = "ValueError")
      ]_vars

\* a step that read a row of the tagged dialect
TaggedRead(tag) ==
    /\ p_status = "reading"
    /\ Len(p_file') = Len(p_file) + 1
    /\ Len(Last(p_file')) > 1
    /\ Last(p_file')[1] = tag

\* C13: a tagged row has the effect of the legacy line of the same content:
\* "GROUP","name" starts the group name as **name does, "HEADING",... declares
\* the headings as *HEADING fields do, "UNIT" and "TYPE" rows add no data row,
\* and "DATA",... stores its values as the bare data line does.
C13_DialectsEquivalent ==
    [][LET temp == Last(p_file')
       IN  /\ TaggedRead(sGROUP) =>
                /\ p_status' = "reading"
                /\ p_group' = <<temp[2]>>
                /\ p_data' = Put(p_data, temp[2], <<>>)
           /\ (TaggedRead(sHEADING) /\ p_group # <<>>) =>
                /\ p_status' = "reading"
                /\ p_group[1] \in DOMAIN p_headings'
                /\ \A i \in 2..Len(temp) :
                       \E k \in 1..Len(p_headings'[p_group[1]]) :
                           StartsWith(p_headings'[p_group[1]][k], temp[i])
           /\ ((TaggedRead(sUNIT) \/ TaggedRead(sTYPE)) /\ p_group # <<>>) =>
                /\ p_status' = "reading"
                /\ p_data' = p_data
           /\ (/\ TaggedRead(sDATA)
               /\ p_group # <<>>
               /\ p_group[1] \in DOMAIN p_headings
               /\ Len(temp) - 1 = Len(p_headings[p_group[1]])) =>
                /\ p_status' = "reading"
                /\ p_data' = Put(p_data, p_group[1],
                                 DataLoop(p_data[p_group[1]], p_headings[p_group[1]],
                                          Tail(temp), 0).cols)
      ]_vars

\* C23: after any sequence of heading lines, the heading names of every
\* group are pairwise distinct
C23_HeadingsDistinct ==
    \A g \in DOMAIN p_headings :
        \A i, j \in 1..Len(p_headings[g]) :
            p_headings[g][i] = p_headings[g][j] => i = j

\* the step reads a <UNITS> line
UnitsRead ==
    /\ Len(p_file') = Len(p_file) + 1
    /\ Len(Last(p_file')) > 0
    /\ Last(p_file')[1] = sUNITS

\* C24: a <UNITS> line is ignored: the step that reads it leaves the dataset
\* (the groups, their headings and their rows) as it was
C24_UnitsLineIgnored ==
    [][UnitsRead => (p_data' = p_data /\ p_headings' = p_headings)]_vars

\* the data lines read since the current group was declared: the rows of the
\* current group, as positions in the file
RowLines ==
    {i \in 1..Len(p_file) :
        /\ IsDataLine(p_file[i])
        /\ \A d \in 1..Len(p_file) : IsGroupLine(p_file[d]) => d < i}

\* the data line read last in the current group; a data line stores its
\* field j under the j-th heading
PrecedingRow == p_file[CHOOSE i \in RowLines : \A k \in RowLines : k <= i]

\* a step that read a <CONT> line inside a group without raising
ContStored == ContRead /\ p_status' = "reading"

\* C27: a <CONT> line changes values of the immediately preceding data row of
\* the current group only: no other group changes, no column gains or loses
\* a value, only the last value of a column may change, and a column changes
\* only if the preceding data row holds a value in it, also when rows of the
\* group were shorter than its headings.
C27_ContOnlyPrecedingRow ==
    [][ContStored =>
          /\ DOMAIN p_data' = DOMAIN p_data
          /\ \A g \in DOMAIN p_data :
               /\ g # p_group[1] => p_data'[g] = p_data[g]
               /\ DOMAIN p_data'[g] = DOMAIN p_data[g]
               /\ \A col \in DOMAIN p_data[g] :
                    /\ Len(p_data'[g][col]) = Len(p_data[g][col])
                    /\ \A k \in 1..(Len(p_data[g][col]) - 1) :
                         p_data'[g][col][k] = p_data[g][col][k]
          /\ \A pos \in 1..Len(DeclaredHeadings) :
               LET col == DeclaredHeadings[pos]
               IN  (/\ col \in DOMAIN p_data[p_group[1]]
                    /\ p_data'[p_group[1]][col] # p_data[p_group[1]][col])
                       => (RowLines # {} /\ Len(PrecedingRow) >= pos)]_vars

\* the group a line at position i belongs to: the one declared most recently
\* before it, <<>> when none was
GroupAt(i) ==
    LET decl == {d \in 1..(i - 1) : IsGroupLine(p_file[d])}
    IN  IF decl = {} THEN <<>>
        ELSE <<Drop(p_file[CHOOSE d \in decl : \A e \in decl : e <= d][1], 2)>>

RECURSIVE FieldsAt(_, _, _)
\* the fields at position pos of the data lines of group g among the first i
\* lines of the file, in input order
FieldsAt(g, pos, i) ==
    IF i = 0 THEN <<>>
    ELSE FieldsAt(g, pos, i - 1) \o
         (IF /\ IsDataLine(p_file[i])
             /\ GroupAt(i) = <<g>>
             /\ Len(p_file[i]) >= pos
          THEN <<p_file[i][pos]>> ELSE <<>>)

\* C28: when AGS4_to_dict returns, every data line of the input is a row of
\* the group declared most recently before it, once and in input order: the
\* column of each heading holds one value for each field the data lines of
\* the group have at its position, beginning with that field (a <CONT> line
\* may have extended it), also when a group name is declared twice.
C28_NoDataRowLost ==
    p_status = "returned" =>
        \A g \in DOMAIN p_data :
            \A pos \in 1..(IF g \in DOMAIN p_headings THEN Len(p_headings[g]) ELSE 0) :
                LET col      == p_headings[g][pos]
                    expected == FieldsAt(g, pos, Len(p_file))
                IN  IF col \in DOMAIN p_data[g]
                    THEN /\ Len(p_data[g][col]) = Len(expected)
                         /\ \A k \in 1..Len(expected) :
                              StartsWith(p_data[g][col][k], expected[k])
                    ELSE expected = <<>>

-----------------------------------------------------------------------------
(* Q-value engine.  A float is [k |-> "num", v |-> integer] or the NaN     *)
(* [k |-> "nan", v |-> 0]; a Q-value is the exact quotient n/d (d > 0), an *)
(* infinity (d = 0, n its sign) or NaN, so no rounding enters a band test. *)

Num(v)  == [k |-> "num", v |-> v]
NaN     == [k |-> "nan", v |-> 0]
IsNum(x) == x.k = "num"

Quot(n, d) == [k |-> "num", n |-> n, d |-> d]
QNaN       == [k |-> "nan", n |-> 0, d |-> 0]
QInf(sign) == [k |-> "inf", n |-> sign, d |-> 0]

Sign(n) == IF n > 0 THEN 1 ELSE IF n < 0 THEN 0 - 1 ELSE 0

\* q >= a/100 and q < a/100 as IEEE comparisons: false on NaN
QGe(q, a) ==
    CASE q.k = "nan" -> FALSE
      [] q.k = "inf" -> q.n > 0
      [] OTHER       -> 100 * q.n >= a * q.d
QLt(q, a) ==
    CASE q.k = "nan" -> FALSE
      [] q.k = "inf" -> q.n < 0
      [] OTHER       -> 100 * q.n < a * q.d

\* "val <= 0" and "0 <= rqd <= 100" on floats: false on NaN
FLe0(x)      == IsNum(x) /\ x.v <= 0
FIn0_100(x)  == IsNum(x) /\ 0 <= x.v /\ x.v <= 100

\* a plausible slip of line 199: "<" for "<="
RqdInRangeStrict(rqd) == IsNum(rqd) /\ 0 < rqd.v /\ rqd.v < 100

\* "0 <= rqd <= 100"
RqdInRange(rqd) == FIn0_100(rqd)

\* GeotechnicalCalculations.calculate_q_value on floats; jn, ja, srf > 0 when
\* the arithmetic is reached with numbers
calculate_q_value(rqd, jn, jr, ja, jw, srf) ==
    IF FLe0(jn) \/ FLe0(ja) \/ FLe0(srf)
    THEN [exc |-> "ValueError", q |-> QNaN]
    ELSE IF ~RqdInRange(rqd)
    THEN [exc |-> "ValueError", q |-> QNaN]
    ELSE IF \E x \in {rqd, jn, jr, ja, jw, srf} : ~IsNum(x)
    THEN [exc |-> "", q |-> QNaN]
    ELSE [exc |-> "", q |-> Quot(rqd.v * jr.v * jw.v, jn.v * ja.v * srf.v)]

\* the band edges, in hundredths: 0.01, 0.1, 1, 4, 10, 40, 100, 400
Edges == <<1, 10, 100, 400, 1000, 4000, 10000, 40000>>

\* a plausible slip of line 209: ">" for ">=" at 40
interpret_q_value_gt40(q) ==
    IF QGe(q, 40000) THEN "Exceptionally Good"
    ELSE IF QGe(q, 10000) THEN "Extremely Good"
    ELSE IF QGe(q, 4000) /\ ~(q.k = "num" /\ 100 * q.n = 4000 * q.d) THEN "Very Good"
    ELSE IF QGe(q, 1000) THEN "Good"
    ELSE IF QGe(q, 400) THEN "Fair"
    ELSE IF QGe(q, 100) THEN "Poor"
    ELSE IF QGe(q, 10) THEN "Very Poor"
    ELSE IF QGe(q, 1) THEN "Extremely Poor"
    ELSE "Exceptionally Poor"

\* GeotechnicalCalculations.interpret_q_value
interpret_q_value(q) ==
    IF QGe(q, 40000) THEN "Exceptionally Good"
    ELSE IF QGe(q, 10000) THEN "Extremely Good"
    ELSE IF QGe(q, 4000) THEN "Very Good"
    ELSE IF QGe(q, 1000) THEN "Good"
    ELSE IF QGe(q, 400) THEN "Fair"
    ELSE IF QGe(q, 100) THEN "Poor"
    ELSE IF QGe(q, 10) THEN "Very Poor"
    ELSE IF QGe(q, 1) THEN "Extremely Poor"
    ELSE "Exceptionally Poor"

\* the .loc assignments of the Rock_Quality column, in the code's order
Rock_Quality(q) ==
    LET r0 == "Unknown"
        r1 == IF QLt(q, 1) THEN "Exceptionally Poor" ELSE r0
        r2 == IF QGe(q, 1) /\ QLt(q, 10) THEN "Extremely Poor" ELSE r1
        r3 == IF QGe(q, 10) /\ QLt(q, 100) THEN "Very Poor" ELSE r2
        r4 == IF QGe(q, 100) /\ QLt(q, 400) THEN "Poor" ELSE r3
        r5 == IF QGe(q, 400) /\ QLt(q, 1000) THEN "Fair" ELSE r4
        r6 == IF QGe(q, 1000) /\ QLt(q, 4000) THEN "Good" ELSE r5
        r7 == IF QGe(q, 4000) /\ QLt(q, 10000) THEN "Very Good" ELSE r6
        r8 == IF QGe(q, 10000) /\ QLt(q, 40000) THEN "Extremely Good" ELSE r7
    IN  IF QGe(q, 40000) THEN "Exceptionally Good" ELSE r8

\* a table cell: a number, NaN (a missing value of a float column), None (a
\* missing value of an object column) or a text that is no number
Cell(k, v) == [k |-> k, v |-> v]
CNum(v)    == Cell("num", v)
CNaN       == Cell("nan", 0)
CNone      == Cell("none", 0)
CText      == Cell("text", 0)

\* float(cell): the float, or the exception float() raises
ToFloat(c) ==
    CASE c.k = "num"  -> [exc |-> "", x |-> Num(c.v)]
      [] c.k = "nan"  -> [exc |-> "", x |-> NaN]
      [] c.k = "none" -> [exc |-> "TypeError", x |-> NaN]
      [] OTHER        -> [exc |-> "ValueError", x |-> NaN]

\* pd.to_numeric(errors='coerce') of one cell
ToNumericCoerce(c) == IF c.k = "num" THEN Num(c.v) ELSE NaN

QCols == {"RQD", "Jn", "Jr", "Ja", "Jw", "SRF"}

\* a plausible slip of lines 190-191: the bad row is left out
BulkSkipBadRow(q_values) == q_values

\* "except (ValueError, TypeError, ZeroDivisionError): q_values.append(np.nan)"
BulkOnError(q_values) == Append(q_values, QNaN)

\* one round of the iterrows loop of calculate_q_values_bulk
BulkRowStep(row, q_values) ==
    LET f == [c \in QCols |-> ToFloat(row[c])]
    IN  IF \E c \in QCols : f[c].exc # ""
        THEN BulkOnError(q_values)
        ELSE LET r == calculate_q_value(f["RQD"].x, f["Jn"].x, f["Jr"].x,
                                        f["Ja"].x, f["Jw"].x, f["SRF"].x)
             IN  IF r.exc # "" THEN BulkOnError(q_values) ELSE Append(q_values, r.q)

\* Series / scalar, then * python float: IEEE division and product
SeriesDiv(x, jn) ==
    IF ~IsNum(x) THEN QNaN
    ELSE IF jn = 0 THEN (IF x.v = 0 THEN QNaN ELSE QInf(Sign(x.v)))
    ELSE Quot(x.v * Sign(jn), jn * Sign(jn))
QTimes(q, n, d) ==
    CASE q.k = "nan" -> QNaN
      [] q.k = "inf" -> IF n = 0 THEN QNaN ELSE QInf(q.n * Sign(n) * Sign(d))
      [] OTHER       -> Quot(q.n * n * Sign(d), q.d * d * Sign(d))

\* the rows and parameters of the calls
MaxQRows == 2

Baseline == [c \in QCols |-> CNum(CASE c = "RQD" -> 90 [] c = "Jn" -> 3 [] c = "Jr" -> 3
                                    [] OTHER -> 1)]
BadCells ==
    [c \in QCols |->
        CASE c = "RQD" -> {CNum(150), CNum(0 - 1), CNum(0), CNum(100), CNaN, CNone, CText}
          [] c = "Jn"  -> {CNum(0), CNum(0 - 3), CNaN}
          [] c = "Jr"  -> {CNum(0), CNaN}
          [] c = "Ja"  -> {CNum(0), CNone}
          [] c = "Jw"  -> {CText}
          [] OTHER     -> {CNum(0), CNum(5), CNaN}]
\* the baseline row, and the baseline with one cell replaced
QRows == {Baseline} \cup
         {[Baseline EXCEPT ![c] = x] : <<c, x>> \in UNION {{c} \X BadCells[c] : c \in QCols}}

RECURSIVE SeqsUpTo(_, _)
SeqsUpTo(S, n) ==
    IF n = 0 THEN {<<>>}
    ELSE LET shorter == SeqsUpTo(S, n - 1)
         IN  shorter \cup {Append(t, x) : t \in {u \in shorter : Len(u) = n - 1}, x \in S}

SingleArgs ==
    [RQD : {0 - 1, 0, 90, 100, 101, 150}, Jn : {0 - 1, 0, 3}, Jr : {1, 3},
     Ja : {0, 1}, Jw : {1, 2}, SRF : {0, 1, 5}]

\* Q-values around every band edge, in hundredths, and 90
Probes == {Quot(Edges[i] + e, 100) : i \in 1..Len(Edges), e \in {0 - 1, 0, 1}}
          \cup {Quot(0 - 5, 100), Quot(9000, 100)}

RqdCells == {CNum(v) : v \in {0 - 1, 0, 1, 4, 10, 40, 90, 100}} \cup {CNaN, CText}
CombParams == [jn : {0, 1, 100}, jr : {1, 4}, ja : {0, 1}, jw : {1}, srf : {1}]

\* calculate_q_value(rqd, jn, jr, ja, jw, srf), the single-value form
QSingle ==
    /\ q_kind = "idle"
    /\ \E a \in SingleArgs :
        /\ q_in' = a
        /\ q_out' = calculate_q_value(Num(a.RQD), Num(a.Jn), Num(a.Jr), Num(a.Ja),
                                      Num(a.Jw), Num(a.SRF))
    /\ q_kind' = "single"
    /\ UNCHANGED q_i
    /\ UNCHANGED nonq

\* interpret_q_value(q_value)
QInterpret ==
    /\ q_kind = "idle"
    /\ \E q \in Probes :
        /\ q_in' = q
        /\ q_out' = interpret_q_value(q)
    /\ q_kind' = "interpret"
    /\ UNCHANGED q_i
    /\ UNCHANGED nonq

\* calculate_q_values_bulk: the copy and the check of the required columns
QBulkCall ==
    /\ q_kind = "idle"
    /\ \E cols \in {QCols, QCols \ {"SRF"}}, rows \in SeqsUpTo(QRows, MaxQRows) :
        /\ q_in' = [cols |-> cols, rows |-> rows]
        /\ q_kind' = IF QCols \subseteq cols THEN "bulk_loop" ELSE "bulk_raised"
    /\ q_i' = 0
    /\ q_out' = <<>>
    /\ UNCHANGED nonq

\* calculate_q_values_bulk: one row of the iterrows loop
QBulkRow ==
    /\ q_kind = "bulk_loop"
    /\ q_i < Len(q_in.rows)
    /\ q_i' = q_i + 1
    /\ q_out' = BulkRowStep(q_in.rows[q_i + 1], q_out)
    /\ UNCHANGED <<q_kind, q_in>>
    /\ UNCHANGED nonq

\* calculate_q_values_bulk: "result_df['Q_VALUE'] = q_values", which raises
\* ValueError when the list is not as long as the table
QBulkReturn ==
    /\ q_kind = "bulk_loop"
    /\ q_i = Len(q_in.rows)
    /\ q_kind' = IF Len(q_out) = Len(q_in.rows) THEN "bulk_done" ELSE "bulk_raised"
    /\ UNCHANGED <<q_in, q_i, q_out>>
    /\ UNCHANGED nonq

\* combiners.calculate_q_value / calculate_q_value_bulk: the Q_value and
\* Rock_Quality columns from the RQD column and scalar parameters
QTable ==
    /\ q_kind = "idle"
    /\ \E rqd \in SeqsUpTo(RqdCells, MaxQRows), a \in CombParams :
        /\ q_in' = [rqd |-> rqd, a |-> a]
        /\ IF a.ja = 0 \/ a.srf = 0
           THEN /\ q_kind' = "table_raised"     \* ZeroDivisionError of jr / ja, jw / srf
                /\ q_out' = <<>>
           ELSE /\ q_kind' = "table_done"
                /\ q_out' =
                     [i \in 1..Len(rqd) |->
                        LET q == QTimes(QTimes(SeriesDiv(ToNumericCoerce(rqd[i]), a.jn),
                                               a.jr, a.ja), a.jw, a.srf)
                        IN  [Q_value |-> q, Rock_Quality |-> Rock_Quality(q)]]
    /\ UNCHANGED q_i
    /\ UNCHANGED nonq

QNext ==
    \/ QSingle
    \/ QInterpret
    \/ QBulkCall
    \/ QBulkRow
    \/ QBulkReturn
    \/ QTable

SpecQ == Init /\ [][QNext]_vars

-----------------------------------------------------------------------------
(* Properties of the Q-value engine                                        *)

\* the validation conditions, on the numbers of a call
ValidInputs(rqd, jn, ja, srf) == jn > 0 /\ ja > 0 /\ srf > 0 /\ 0 <= rqd /\ rqd <= 100

\* q is the exact value of (rqd / jn) * (jr / ja) * (jw / srf)
IsQOf(q, rqd, jn, jr, ja, jw, srf) ==
    q.k = "num" /\ q.d > 0 /\ q.n * (jn * ja * srf) = (rqd * jr * jw) * q.d

\* C5: the single-value calculate_q_value returns (RQD/Jn)*(Jr/Ja)*(Jw/SRF)
\* exactly when Jn > 0, Ja > 0, SRF > 0 and 0 <= RQD <= 100 and raises
\* ValueError otherwise; RQD=150 raises, Jn=0 raises, (90,3,3,1,1,1) gives 90.
C5_SingleValueValidation ==
    q_kind = "single" =>
        LET a == q_in
        IN  /\ ValidInputs(a.RQD, a.Jn, a.Ja, a.SRF) =>
                 /\ q_out.exc = ""
                 /\ IsQOf(q_out.q, a.RQD, a.Jn, a.Jr, a.Ja, a.Jw, a.SRF)
            /\ ~ValidInputs(a.RQD, a.Jn, a.Ja, a.SRF) => q_out.exc = "ValueError"
            /\ a.RQD = 150 => q_out.exc = "ValueError"
            /\ a.Jn = 0 => q_out.exc = "ValueError"
            /\ a = [RQD |-> 90, Jn |-> 3, Jr |-> 3, Ja |-> 1, Jw |-> 1, SRF |-> 1] =>
                 q_out.exc = "" /\ q_out.q.n = 90 * q_out.q.d

\* C5 witness: the handbook case has been computed, and a call at the edge of
\* the RQD range has been accepted
C5_Witness ==
    /\ q_kind = "single"
    /\ q_out.exc = ""
    /\ \/ q_in = [RQD |-> 90, Jn |-> 3, Jr |-> 3, Ja |-> 1, Jw |-> 1, SRF |-> 1]
       \/ q_in.RQD = 100

\* a row all of whose cells are numbers that pass the validation
RowValid(r) ==
    /\ \A c \in QCols : r[c].k = "num"
    /\ ValidInputs(r["RQD"].v, r["Jn"].v, r["Ja"].v, r["SRF"].v)

\* C6: on a table with all six columns the bulk form never raises; it returns
\* one Q_VALUE per row, the value of the formula on every valid row and NaN on
\* exactly the rows that are invalid or not numeric.
C6_BulkTolerance ==
    (q_kind \in {"bulk_loop", "bulk_done", "bulk_raised"} /\ QCols \subseteq q_in.cols) =>
        /\ q_kind # "bulk_raised"
        /\ Len(q_out) = q_i
        /\ q_kind = "bulk_done" => Len(q_out) = Len(q_in.rows)
        /\ \A i \in 1..Len(q_out) :
             LET r == q_in.rows[i]
             IN  IF RowValid(r)
                 THEN IsQOf(q_out[i], r["RQD"].v, r["Jn"].v, r["Jr"].v,
                            r["Ja"].v, r["Jw"].v, r["SRF"].v)
                 ELSE q_out[i] = QNaN

\* C6 witness: a finished batch whose second row has Jn = 0 and whose first
\* row is valid
C6_Witness ==
    /\ q_kind = "bulk_done"
    /\ Len(q_in.rows) = 2
    /\ q_in.rows[1] = Baseline
    /\ q_in.rows[2] = [Baseline EXCEPT !["Jn"] = CNum(0)]
    /\ q_out[1].k = "num" /\ q_out[1].n = 90 * q_out[1].d
    /\ q_out[2] = QNaN

BandNames ==
    <<"Exceptionally Poor", "Extremely Poor", "Very Poor", "Poor", "Fair", "Good",
      "Very Good", "Extremely Good", "Exceptionally Good">>

\* the band of a Q-value that is not NaN: as many edges lie at or below it
Band(q) ==
    LET below == IF q.k = "inf"
                 THEN (IF q.n > 0 THEN 1..Len(Edges) ELSE {})
                 ELSE {i \in 1..Len(Edges) : 100 * q.n >= Edges[i] * q.d}
    IN  BandNames[1 + Cardinality(below)]

\* C7: every Q-value falls in exactly one of the nine bands, lower-inclusive
\* and upper-exclusive at 0.01, 0.1, 1, 4, 10, 40, 100, 400; interpret_q_value
\* and the Rock_Quality column give that band, so Q = 90 is Very Good in both.
C7_BandsAgree ==
    /\ q_kind = "interpret" =>
         /\ q_out = Band(q_in)
         /\ (q_in.n = 90 * q_in.d => q_out = "Very Good")
    /\ q_kind = "table_done" =>
         \A i \in 1..Len(q_out) :
            LET q == q_out[i].Q_value
            IN  q.k # "nan" =>
                  /\ q_out[i].Rock_Quality = Band(q)
                  /\ q_out[i].Rock_Quality = interpret_q_value(q)
                  /\ (q.k = "num" /\ q.n = 90 * q.d => q_out[i].Rock_Quality = "Very Good")

\* C7 witness: Q = 90 has been classified by the table form, or a Q-value on
\* the edge 40 by the single-value form
C7_Witness ==
    \/ /\ q_kind = "table_done"
       /\ \E i \in 1..Len(q_out) :
            /\ q_out[i].Q_value.k = "num"
            /\ q_out[i].Q_value.n = 90 * q_out[i].Q_value.d
            /\ q_out[i].Rock_Quality = "Very Good"
    \/ /\ q_kind = "interpret"
       /\ q_in = Quot(4000, 100)
       /\ q_out = "Very Good"

-----------------------------------------------------------------------------
(* Weathering / rockhead engine.  Depths and TCR are whole numbers; a      *)
(* numeric weathering grade is kept in tenths (II/III = 2.5 is 25).        *)

\* grade_map, in tenths; <<>> is NaN (no entry of the map)
GradeNum(g) ==
    CASE g = "I" -> <<10>> [] g = "II" -> <<20>> [] g = "III" -> <<30>>
      [] g = "IV" -> <<40>> [] g = "V" -> <<50>> [] g = "VI" -> <<60>>
      [] g \in {"I/II", "II/I"} -> <<15>>
      [] g \in {"II/III", "III/II"} -> <<25>>
      [] g \in {"III/IV", "IV/III"} -> <<35>>
      [] g \in {"IV/V", "V/IV"} -> <<45>>
      [] g \in {"V/VI", "VI/V"} -> <<55>>
      [] OTHER -> <<>>

\* weth_grade_to_numeric, on one row
weth_grade_to_numeric(row) == [WETH_GRAD_NUM |-> GradeNum(row.WETH_GRAD)] @@ row

RECURSIVE HasSub(_, _, _)
\* str.contains of a literal: sub occurs in s at position i or later
HasSub(s, sub, i) ==
    IF i + Len(sub) - 1 > Len(s) THEN FALSE
    ELSE SubSeq(s, i, i + Len(sub) - 1) = sub \/ HasSub(s, sub, i + 1)

RECURSIVE HasNdotRdot(_, _)
\* str.contains('N.R.'): the regular expression N, any character, R, any character
HasNdotRdot(s, i) ==
    IF i + 3 > Len(s) THEN FALSE
    ELSE (s[i] = "N" /\ s[i + 2] = "R") \/ HasNdotRdot(s, i + 1)

\* the NR column after lines 298-308; a cell that is no text counts as na
NoRecovery(row, cols) ==
    \/ ("NR" \in cols /\ row.NR = 1)
    \/ /\ "FI" \in cols
       /\ row.FI.k = "text"
       /\ (HasSub(row.FI.v, <<"N", "R">>, 1) \/ HasNdotRdot(row.FI.v, 1))

\* a plausible slip of lines 311-326: the weak flags tested in both branches
rock_material_criteria_strict(row, cols, include_weak_zones) ==
    LET Mod_Weak == "Mod_Weak" \in cols /\ row.Mod_Weak = 1
        Weak     == "Weak" \in cols /\ row.Weak = 1
        NR       == NoRecovery(row, cols)
        graded   == row.WETH_GRAD_NUM # <<>> /\ row.WETH_GRAD_NUM[1] <= 30
    IN  [rock_mat |-> graded /\ row.WETH_GRAD # "NI" /\ ~Mod_Weak /\ ~Weak /\ ~NR] @@ row

\* rock_material_criteria, on one row
rock_material_criteria(row, cols, include_weak_zones) ==
    LET Mod_Weak == "Mod_Weak" \in cols /\ row.Mod_Weak = 1
        Weak     == "Weak" \in cols /\ row.Weak = 1
        NR       == NoRecovery(row, cols)
        graded   == row.WETH_GRAD_NUM # <<>> /\ row.WETH_GRAD_NUM[1] <= 30
        rock_mat == IF include_weak_zones
                    THEN graded /\ row.WETH_GRAD # "NI" /\ ~NR
                    ELSE graded /\ row.WETH_GRAD # "NI" /\ ~Mod_Weak /\ ~Weak /\ ~NR
    IN  [rock_mat |-> rock_mat] @@ row

\* a plausible slip of line 361: ">" for ">="
TcrAbove(tcr, tcr_threshold) == tcr.k = "num" /\ tcr.v > tcr_threshold

\* "pd.to_numeric(df['TCR'], errors='coerce') >= tcr_threshold"
TcrAtLeast(tcr, tcr_threshold) == tcr.k = "num" /\ tcr.v >= tcr_threshold

\* the rock_TCR column, on one row
rock_TCR(row, cols, tcr_threshold) ==
    [rock_TCR |-> IF "TCR" \in cols
                  THEN row.rock_mat /\ TcrAtLeast(row.TCR, tcr_threshold)
                  ELSE row.rock_mat] @@ row

\* the column the boreholes are told apart by, <<>> when there is none
HoleIdCol(cols) ==
    IF "HOLE_ID" \in cols THEN <<"HOLE_ID">>
    ELSE IF "GIU_HOLE_ID" \in cols THEN <<"GIU_HOLE_ID">>
    ELSE <<>>

HoleIdOf(row, col) == IF col = "HOLE_ID" THEN row.HOLE_ID ELSE row.GIU_HOLE_ID

RECURSIVE Unique(_, _, _)
\* Series.unique(): the values in order of first appearance
Unique(rows, col, i) ==
    IF i > Len(rows) THEN <<>>
    ELSE LET rest == Unique(rows, col, i + 1)
             v    == HoleIdOf(rows[i], col)
         IN  <<v>> \o SelectSeq(rest, LAMBDA x : x # v)

RECURSIVE SortedOrders(_, _)
\* sort_values('DEPTH_FROM'): the orders of the rows S by ascending DEPTH_FROM;
\* the default sort is not stable, so rows of equal DEPTH_FROM come in any order
SortedOrders(rows, S) ==
    IF S = {} THEN {<<>>}
    ELSE LET least == {i \in S : \A j \in S : rows[i].DEPTH_FROM <= rows[j].DEPTH_FROM}
         IN  UNION {{<<rows[i]>> \o t : t \in SortedOrders(rows, S \ {i})} : i \in least}

\* the table of test_combiners_module: one borehole, ten one-metre rows
ScenarioGrades == <<"V", "IV", "III", "II", "II", "I", "I", "I", "I", "I">>
ScenarioTCR    == <<40, 60, 80, 85, 90, 95, 95, 95, 95, 95>>
ScenarioCols   == {"HOLE_ID", "DEPTH_FROM", "DEPTH_TO", "WETH_GRAD", "TCR"}
RockRow(hole, giu, from, to, grade, tcr) ==
    [HOLE_ID |-> hole, GIU_HOLE_ID |-> giu, DEPTH_FROM |-> from, DEPTH_TO |-> to,
     WETH_GRAD |-> grade, TCR |-> tcr, FI |-> CNaN, NR |-> 0, Mod_Weak |-> 0, Weak |-> 0]
Scenario ==
    [i \in 1..10 |-> RockRow("BH1", "A_1_BH1", i - 1, i, ScenarioGrades[i],
                             CNum(ScenarioTCR[i]))]

\* other tables: up to MaxRockRows three-metre rows of one or two files
MaxRockRows == 2

RockRows ==
    {RockRow("BH1", giu, from, from + 3, grade, tcr) :
        giu \in {"A_1_BH1", "A_2_BH1"}, from \in {0, 3}, grade \in {"II", "IV"},
        tcr \in {CNum(90), CNum(50)}}

\* a borehole whose rock is interrupted: grade II, IV, II over 0-3, 3-6, 6-9
Interrupted ==
    <<RockRow("BH1", "A_1_BH1", 0, 3, "II", CNum(90)),
      RockRow("BH1", "A_1_BH1", 3, 6, "IV", CNum(90)),
      RockRow("BH1", "A_1_BH1", 6, 9, "II", CNum(90))>>

\* single rows for the rock material predicate: mapped, unmapped and 'NI'
\* grade labels, the three flags, and the fracture index texts NR, N/R and 8
CriteriaCols == ScenarioCols \cup {"Mod_Weak", "Weak", "NR", "FI"}
CriteriaRows ==
    {[RockRow("BH1", "A_1_BH1", 0, 3, grade, CNum(90))
         EXCEPT !.Mod_Weak = mw, !.Weak = wk, !.NR = nr, !.FI = fi] :
        grade \in {"II", "III", "III/IV", "IV", "NI", "XX"},
        mw \in {0, 1}, wk \in {0, 1}, nr \in {0, 1},
        fi \in {CNaN, Cell("text", <<"N", "R">>), Cell("text", <<"N", "/", "R">>),
                Cell("text", <<"8">>)}}

RockCalls ==
    [table : {<<row>> : row \in CriteriaRows}, cols : {CriteriaCols},
     tcr_threshold : {85}, continuous_length : {3}, include_weak : BOOLEAN]
    \cup
    {[table |-> Scenario, cols |-> ScenarioCols, tcr_threshold |-> 85,
      continuous_length |-> 5, include_weak |-> FALSE]}
    \cup
    [table : {Interrupted}, cols : {ScenarioCols}, tcr_threshold : {85},
     continuous_length : {3, 5}, include_weak : {FALSE}]
    \cup
    [table : SeqsUpTo(RockRows, MaxRockRows),
     cols : {ScenarioCols, ScenarioCols \cup {"GIU_HOLE_ID"},
             (ScenarioCols \ {"HOLE_ID"}) \cup {"GIU_HOLE_ID"}, ScenarioCols \ {"TCR"},
             ScenarioCols \ {"HOLE_ID"}},
     tcr_threshold : {85}, continuous_length : {3, 5}, include_weak : {FALSE}]

\* calculate_rockhead up to the loop over the boreholes
RockCall ==
    /\ r_kind = "idle"
    /\ \E call \in RockCalls :
        /\ r_in' = call
        /\ IF "WETH_GRAD" \notin call.cols \/ HoleIdCol(call.cols) = <<>>
           THEN /\ r_kind' = "raised"
                /\ UNCHANGED <<r_df, r_holes>>
           ELSE LET df == [i \in 1..Len(call.table) |->
                             rock_TCR(rock_material_criteria(
                                          weth_grade_to_numeric(call.table[i]),
                                          call.cols, call.include_weak),
                                      call.cols, call.tcr_threshold)]
                IN  /\ r_kind' = "next_hole"
                    /\ r_df' = df
                    /\ r_holes' = Unique(df, HoleIdCol(call.cols)[1], 1)
    /\ UNCHANGED <<r_hole, r_rows, r_run, r_depths>>
    /\ UNCHANGED nonr

\* "for hole_id in hole_ids": select and sort the rows of the next borehole
RockNextHole ==
    /\ r_kind = "next_hole"
    /\ r_holes # <<>>
    /\ LET col == HoleIdCol(r_in.cols)[1]
           S   == {i \in 1..Len(r_df) : HoleIdOf(r_df[i], col) = Head(r_holes)}
       IN  \E order \in SortedOrders(r_df, S) : r_rows' = order
    /\ r_hole' = <<Head(r_holes)>>
    /\ r_holes' = Tail(r_holes)
    /\ r_run' = [start |-> <<>>, length |-> 0]
    /\ r_kind' = "scan"
    /\ UNCHANGED <<r_in, r_df, r_depths>>
    /\ UNCHANGED nonr

\* a plausible slip of lines 396-399: the run survives a row that fails
NextRunNoReset(run, row) ==
    IF ~row.rock_TCR THEN run
    ELSE IF run.start = <<>>
    THEN [start |-> <<row.DEPTH_FROM>>, length |-> row.DEPTH_TO - row.DEPTH_FROM]
    ELSE [start |-> run.start, length |-> run.length + (row.DEPTH_TO - row.DEPTH_FROM)]

\* current_run_start and current_run_length after the row: lines 384-399
NextRun(run, row) ==
    IF ~row.rock_TCR
    THEN [start |-> <<>>, length |-> 0]
    ELSE IF run.start = <<>>
    THEN [start |-> <<row.DEPTH_FROM>>, length |-> row.DEPTH_TO - row.DEPTH_FROM]
    ELSE [start |-> run.start, length |-> run.length + (row.DEPTH_TO - row.DEPTH_FROM)]

\* "for idx, row in hole_data.iterrows()": one row of the scan
RockRowStep ==
    /\ r_kind = "scan"
    /\ r_rows # <<>>
    /\ LET row == Head(r_rows)
           run == NextRun(r_run, row)
       IN  /\ r_run' = run
           /\ IF row.rock_TCR /\ run.length >= r_in.continuous_length
              THEN \* rockhead_depth = current_run_start; break
                   /\ r_depths' = Put(r_depths, r_hole[1], [k |-> "depth", v |-> run.start[1]])
                   /\ r_rows' = <<>>
                   /\ r_hole' = <<>>
                   /\ r_kind' = "next_hole"
              ELSE /\ r_rows' = Tail(r_rows)
                   /\ UNCHANGED <<r_depths, r_hole, r_kind>>
    /\ UNCHANGED <<r_in, r_df, r_holes>>
    /\ UNCHANGED nonr

\* the scan ran out of rows: rockhead_depths[hole_id] = 'Not Found'
RockNotFound ==
    /\ r_kind = "scan"
    /\ r_rows = <<>>
    /\ r_depths' = Put(r_depths, r_hole[1], [k |-> "Not Found", v |-> 0])
    /\ r_hole' = <<>>
    /\ r_kind' = "next_hole"
    /\ UNCHANGED <<r_in, r_df, r_holes, r_rows, r_run>>
    /\ UNCHANGED nonr

\* the summary and the return
RockReturn ==
    /\ r_kind = "next_hole"
    /\ r_holes = <<>>
    /\ r_kind' = "done"
    /\ UNCHANGED <<r_in, r_df, r_holes, r_hole, r_rows, r_run, r_depths>>
    /\ UNCHANGED nonr

RNext ==
    \/ RockCall
    \/ RockNextHole
    \/ RockRowStep
    \/ RockNotFound
    \/ RockReturn

SpecRock == Init /\ [][RNext]_vars

-----------------------------------------------------------------------------
(* Properties of the rockhead engine                                       *)

ScenarioDone ==
    /\ r_kind = "done"
    /\ r_in.table = Scenario
    /\ r_in.tcr_threshold = 85
    /\ r_in.continuous_length = 5

\* C3 as stated: the ten-row borehole with threshold 85 and continuous
\* length 5 has its rockhead reported at depth 5.
C3_RockheadAtFive ==
    ScenarioDone => r_depths["BH1"] = [k |-> "depth", v |-> 5]

\* C3 as amended: the rockhead of that borehole is reported at depth 3, the
\* top of the first row of grade <= III whose TCR reaches 85 (grade II, TCR
\* 85), from which the qualifying rows run unbroken for 5 m.
C3_RockheadAtThree ==
    ScenarioDone =>
        /\ DOMAIN r_depths = {"BH1"}
        /\ r_depths["BH1"] = [k |-> "depth", v |-> 3]
        /\ \A i \in 1..10 : r_df[i].rock_TCR <=> i >= 4

\* C3 witness: the scan of the ten rows has finished
C3_Witness == ScenarioDone /\ r_depths["BH1"].k = "depth"

\* the rows of borehole h in the table of the call
HoleRowSet(h) ==
    {i \in 1..Len(r_df) : HoleIdOf(r_df[i], HoleIdCol(r_in.cols)[1]) = h}

RECURSIVE Accumulated(_, _, _)
\* the sum of DEPTH_TO - DEPTH_FROM over the rows i..j of the profile
Accumulated(o, i, j) ==
    IF i > j THEN 0
    ELSE (o[i].DEPTH_TO - o[i].DEPTH_FROM) + Accumulated(o, i + 1, j)

\* the rows i..j of the profile are a run: all qualify, and the row before
\* i, if any, does not
IsRun(o, i, j) ==
    /\ i <= j
    /\ \A k \in i..j : o[k].rock_TCR
    /\ i > 1 => ~o[i - 1].rock_TCR

\* the run i..j reaches the length at row j and not before
ReachesAt(o, i, j, length) ==
    /\ IsRun(o, i, j)
    /\ Accumulated(o, i, j) >= length
    /\ \A k \in i..(j - 1) : Accumulated(o, i, k) < length

\* the result the claim gives for the profile o: the DEPTH_FROM of the first
\* row of the earliest run that reaches the length, else 'Not Found'
EarliestRun(o, length) ==
    LET reaching == {p \in (1..Len(o)) \X (1..Len(o)) : ReachesAt(o, p[1], p[2], length)}
    IN  IF reaching = {} THEN [k |-> "Not Found", v |-> 0]
        ELSE LET first == CHOOSE p \in reaching : \A q \in reaching : p[2] <= q[2]
             IN  [k |-> "depth", v |-> o[first[1]].DEPTH_FROM]

\* C19: when calculate_rockhead has returned, every borehole has a result,
\* and it is the one the earliest-run rule gives for its rows in an ascending
\* DEPTH_FROM order: the top of the first run of consecutive qualifying rows
\* whose accumulated length reaches continuous_length, a failing row ending
\* the run, and 'Not Found' when no run reaches it
C19_EarliestQualifyingRun ==
    r_kind = "done" =>
        /\ DOMAIN r_depths = {HoleIdOf(r_df[i], HoleIdCol(r_in.cols)[1]) : i \in 1..Len(r_df)}
        /\ \A h \in DOMAIN r_depths :
              r_depths[h] \in {EarliestRun(o, r_in.continuous_length) :
                                  o \in SortedOrders(r_df, HoleRowSet(h))}

\* C19 witness: the interrupted borehole was scanned for 5 m; its two rock
\* rows of 3 m are apart, and the result is 'Not Found' without an error
C19_Witness ==
    /\ r_kind = "done"
    /\ r_in.table = Interrupted
    /\ r_in.continuous_length = 5
    /\ r_depths["BH1"].k = "Not Found"

\* the rows of the composite hole id g in the table of the call
GiuRowSet(g) == {i \in 1..Len(r_df) : r_df[i].GIU_HOLE_ID = g}

\* C20: when calculate_rockhead has returned for a table holding both HOLE_ID
\* and GIU_HOLE_ID, there are as many results as composite hole ids, and
\* every composite id has a result that is the earliest-run result of its
\* own rows alone, under whichever key the result is stored
C20_ProfilesByCompositeId ==
    (r_kind = "done" /\ {"HOLE_ID", "GIU_HOLE_ID"} \subseteq r_in.cols) =>
        LET ids == {r_df[i].GIU_HOLE_ID : i \in 1..Len(r_df)}
        IN  /\ Cardinality(DOMAIN r_depths) = Cardinality(ids)
            /\ \A g \in ids :
                  \E h \in DOMAIN r_depths :
                      r_depths[h] \in {EarliestRun(o, r_in.continuous_length) :
                                          o \in SortedOrders(r_df, GiuRowSet(g))}

\* the flag column c is there and set on the row
Flagged(row, cols, c) == c \in cols /\ row[c] = 1

\* C25: in the table calculate_rockhead works on, rock_mat is true for a row
\* if and only if its grade label maps to a number <= 3, the label is not
\* 'NI', the row is not flagged no-recovery, and it is not flagged Mod_Weak
\* or Weak unless include_weak_zones is true
C25_RockMaterialIff ==
    r_kind \notin {"idle", "raised"} =>
        \A i \in 1..Len(r_df) :
            LET row == r_df[i]
                num == GradeNum(r_in.table[i].WETH_GRAD)
            IN  row.rock_mat <=>
                    /\ num # <<>>
                    /\ num[1] <= 30
                    /\ row.WETH_GRAD # "NI"
                    /\ ~NoRecovery(row, r_in.cols)
                    /\ \/ r_in.include_weak
                       \/ ~(Flagged(row, r_in.cols, "Mod_Weak") \/ Flagged(row, r_in.cols, "Weak"))

\* C25 witness: with include_weak_zones a row flagged Mod_Weak is rock
C25_Witness ==
    /\ r_kind = "done"
    /\ r_in.include_weak
    /\ \E i \in 1..Len(r_df) :
          r_df[i].rock_mat /\ Flagged(r_df[i], r_in.cols, "Mod_Weak")

\* the FI cell of the row is a text with an 'N' and an 'R' somewhere in it
HasNandR(row, cols) ==
    /\ "FI" \in cols
    /\ row.FI.k = "text"
    /\ \E i \in 1..Len(row.FI.v) : row.FI.v[i] = "N"
    /\ \E i \in 1..Len(row.FI.v) : row.FI.v[i] = "R"

\* C26: in the table calculate_rockhead works on, a row counts as
\* no-recovery, and so is no rock material, if and only if its NR indicator
\* is set or its FI text contains both an 'N' and an 'R'
C26_NoRecoveryIff ==
    r_kind \notin {"idle", "raised"} =>
        \A i \in 1..Len(r_df) :
            LET row == r_df[i]
            IN  (/\ row.WETH_GRAD_NUM # <<>>
                 /\ row.WETH_GRAD_NUM[1] <= 30
                 /\ row.WETH_GRAD # "NI"
                 /\ ~Flagged(row, r_in.cols, "Mod_Weak")
                 /\ ~Flagged(row, r_in.cols, "Weak"))
                => (~row.rock_mat <=>
                       (Flagged(row, r_in.cols, "NR") \/ HasNandR(row, r_in.cols)))

-----------------------------------------------------------------------------
(* Consolidator: concat_ags_files.  A table is a set of column names and a *)
(* sequence of rows; a row is a function from column names to text, and a  *)
(* column of the table outside the row's domain is a NaN cell.             *)

Table(cols, rows) == [cols |-> cols, rows |-> rows]

\* df.empty: no rows or no columns
IsEmptyDf(df) == df.rows = <<>> \/ df.cols = {}

\* a plausible slip of line 39: the file index left out of the tag
per_file_giu_unindexed(giu_number, idx) == giu_number

\* per_file_giu = f"{giu_number}_{idx+1}"
per_file_giu(giu_number, idx) == giu_number \o "_" \o ToString(idx + 1)

\* temp["GIU_NO"].astype(str) + "_" + temp["HOLE_ID"].astype(str)
GiuHoleId(giu_no, hole_id) == giu_no \o "_" \o hole_id

\* lines 45-49 on one row
StampRow(row, giu_no, name) ==
    LET a == Put(Put(row, "GIU_NO", giu_no), "AGS_FILE", name)
    IN  IF "HOLE_ID" \in DOMAIN row
        THEN Put(a, "GIU_HOLE_ID", GiuHoleId(giu_no, row.HOLE_ID))
        ELSE a

\* temp, the stamped copy of df
StampDf(df, giu_no, name) ==
    Table(df.cols \cup {"GIU_NO", "AGS_FILE"}
              \cup (IF "HOLE_ID" \in df.cols THEN {"GIU_HOLE_ID"} ELSE {}),
          [i \in 1..Len(df.rows) |-> StampRow(df.rows[i], giu_no, name)])

\* a plausible slip of line 50: the newest file put first
PrependTemp(dfs, temp) == <<temp>> \o dfs

\* combined.setdefault(group_name, []).append(temp)
AppendTemp(dfs, temp) == Append(dfs, temp)

RECURSIVE pd_concat(_, _)
\* pd.concat(dfs, ignore_index=True), from the i-th table on
pd_concat(dfs, i) ==
    IF i > Len(dfs) THEN Table({}, <<>>)
    ELSE LET rest == pd_concat(dfs, i + 1)
         IN  Table(dfs[i].cols \cup rest.cols, dfs[i].rows \o rest.rows)

MaxFiles == 2
MaxConcatRows == 2

HoleIds == {"BH1", "2_BH1"}

\* the HOLE tables of a parsed file
HoleTables ==
    {Table({"HOLE_ID"}, [i \in 1..Len(ids) |-> [HOLE_ID |-> ids[i]]]) :
        ids \in SeqsUpTo(HoleIds, MaxConcatRows)}

\* the PROJ table of a parsed file: a group without HOLE_ID
ProjTables == {Table({"PROJ_ID"}, <<[PROJ_ID |-> "P1"]>>)}

\* df_dict of AGS4_to_dataframe: any of the two groups may be missing
DfDicts ==
    {[g \in {} |-> Table({}, <<>>)]}
    \cup {[g \in {"HOLE"} |-> t] : t \in HoleTables}
    \cup {[g \in {"PROJ"} |-> t] : t \in ProjTables}
    \cup {[g \in {"HOLE", "PROJ"} |-> IF g = "HOLE" THEN t ELSE u] :
              t \in HoleTables, u \in ProjTables}

RECURSIVE Str(_)
\* a text of the parser as one string
Str(t) == IF t = <<>> THEN "" ELSE t[1] \o Str(Tail(t))

\* a DataFrame of AGS4_to_dataframe as a table; its cells here are texts
AsTable(df) ==
    LET names == {Str(k) : k \in DOMAIN df}
        Key(c) == CHOOSE k \in DOMAIN df : Str(k) = c
        n     == IF DOMAIN df = {} THEN 0 ELSE Len(df[CHOOSE k \in DOMAIN df : TRUE])
    IN  Table(names, [i \in 1..n |-> [c \in names |-> Str(df[Key(c)][i])]])

\* AGS4_to_dataframe(file) for a file whose lines gave AGS4_to_dict the
\* dictionary data, or made it raise exc after data was read
ParsedFile(data, exc) ==
    LET dfs == AGS4_to_dataframe(data)
    IN  IF exc # ""
        THEN [name |-> "a.ags", exc |-> exc, dropped |-> {},
              df_dict |-> [g \in {} |-> Table({}, <<>>)]]
        ELSE [name |-> "a.ags", exc |-> "",
              dropped |-> {Str(g) : g \in {k \in DOMAIN data : ~SameLength(data[k])}},
              df_dict |-> [g \in {Str(k) : k \in DOMAIN dfs} |->
                              AsTable(dfs[CHOOSE k \in DOMAIN dfs : Str(k) = g])]]

\* **HOLE / *HOLE_ID,*REMARKS / "BH1","abc" / **GEOL / *REMARKS / "abc"
GoodData ==
    (sHOLE :> ((sHOLE_ID :> <<sBH1>>) @@ (sREMARKS :> <<sabc>>)))
    @@ (sGEOL :> (sREMARKS :> <<sabc>>))

\* the same file with the short data row "BH1" in HOLE
RaggedData ==
    (sHOLE :> ((sHOLE_ID :> <<sBH1>>) @@ (sREMARKS :> <<>>)))
    @@ (sGEOL :> (sREMARKS :> <<sabc>>))

\* files given by their text: well formed, with a short row, and with a
\* line that makes AGS4_to_dict raise after the two groups were read
ParsedFiles ==
    {ParsedFile(GoodData, ""), ParsedFile(RaggedData, ""), ParsedFile(GoodData, "ValueError")}

UploadedFiles ==
    [name : {"a.ags"}, exc : {""}, dropped : {{}}, df_dict : DfDicts] \cup ParsedFiles

\* the call, up to the loop over the files
ConcatCall ==
    /\ c_kind = "idle"
    /\ \E files \in SeqsUpTo(UploadedFiles, MaxFiles), giu \in {"A", "B"} :
        c_in' = [uploaded_files |-> files, giu_number |-> giu]
    /\ c_kind' = "loop"
    /\ c_idx' = 0
    /\ c_combined' = [g \in {} |-> <<>>]
    /\ UNCHANGED c_out
    /\ UNCHANGED nonc

\* "for idx, file in enumerate(uploaded_files)": one file, all its groups
ConcatFile ==
    /\ c_kind = "loop"
    /\ c_idx < Len(c_in.uploaded_files)
    /\ LET file   == c_in.uploaded_files[c_idx + 1]
           giu_no == per_file_giu(c_in.giu_number, c_idx)
           used   == {g \in DOMAIN file.df_dict : ~IsEmptyDf(file.df_dict[g])}
       IN  IF file.exc # ""
           THEN \* AGS4_to_dataframe raised: the exception leaves concat_ags_files
                /\ c_kind' = "raised"
                /\ UNCHANGED <<c_idx, c_combined>>
           ELSE /\ c_combined' =
                    [g \in DOMAIN c_combined \cup used |->
                        LET dfs == IF g \in DOMAIN c_combined THEN c_combined[g] ELSE <<>>
                        IN  IF g \in used
                            THEN AppendTemp(dfs, StampDf(file.df_dict[g], giu_no, file.name))
                            ELSE dfs]
                /\ c_idx' = c_idx + 1
                /\ UNCHANGED c_kind
    /\ UNCHANGED <<c_in, c_out>>
    /\ UNCHANGED nonc

\* "return {g: pd.concat(dfs, ignore_index=True) ...}"
ConcatReturn ==
    /\ c_kind = "loop"
    /\ c_idx = Len(c_in.uploaded_files)
    /\ c_out' = [g \in DOMAIN c_combined |-> pd_concat(c_combined[g], 1)]
    /\ c_kind' = "done"
    /\ UNCHANGED <<c_in, c_idx, c_combined>>
    /\ UNCHANGED nonc

CNext ==
    \/ ConcatCall
    \/ ConcatFile
    \/ ConcatReturn

SpecConcat == Init /\ [][CNext]_vars

-----------------------------------------------------------------------------
(* Properties of the consolidator                                          *)

RECURSIVE SourceRows(_, _)
\* the rows of group g in the files from the i-th on, in file order and then
\* row order, each with the 1-based ordinal of its file
SourceRows(g, i) ==
    IF i > Len(c_in.uploaded_files) THEN <<>>
    ELSE LET d == c_in.uploaded_files[i].df_dict
             here == IF g \in DOMAIN d
                     THEN [k \in 1..Len(d[g].rows) |-> [row |-> d[g].rows[k], file |-> i]]
                     ELSE <<>>
         IN  here \o SourceRows(g, i + 1)

SourceGroups == UNION {DOMAIN c_in.uploaded_files[i].df_dict : i \in 1..Len(c_in.uploaded_files)}

\* the output row out is the source row src of the i-th file, stamped
StampedAs(out, src, i) ==
    LET tag == c_in.giu_number \o "_" \o ToString(i)
    IN  /\ \A c \in DOMAIN src : c \in DOMAIN out /\ out[c] = src[c]
        /\ out.GIU_NO = tag
        /\ "HOLE_ID" \in DOMAIN src =>
               /\ "GIU_HOLE_ID" \in DOMAIN out
               /\ out.GIU_HOLE_ID = tag \o "_" \o src.HOLE_ID

\* C2: in the consolidated output two rows that come from different files
\* never carry the same GIU_HOLE_ID, also when their HOLE_ID is the same;
\* BH1 as first file under the base ids A and B gives A_1_BH1 and B_1_BH1.
C2_CompositeIdsNeverCollide ==
    /\ GiuHoleId(per_file_giu("A", 0), "BH1") = "A_1_BH1"
    /\ GiuHoleId(per_file_giu("B", 0), "BH1") = "B_1_BH1"
    /\ c_kind = "done" =>
        \A g \in DOMAIN c_out, h \in DOMAIN c_out :
            LET from_g == SourceRows(g, 1)
                from_h == SourceRows(h, 1)
            IN  /\ Len(from_g) = Len(c_out[g].rows)
                /\ Len(from_h) = Len(c_out[h].rows)
                /\ \A i \in 1..Len(c_out[g].rows), j \in 1..Len(c_out[h].rows) :
                       LET a == c_out[g].rows[i]
                           b == c_out[h].rows[j]
                       IN  (/\ from_g[i].file # from_h[j].file
                            /\ "GIU_HOLE_ID" \in DOMAIN a
                            /\ "GIU_HOLE_ID" \in DOMAIN b)
                           => a.GIU_HOLE_ID # b.GIU_HOLE_ID

\* C2 witness: two files have contributed a row of the same HOLE_ID
C2_Witness ==
    /\ c_kind = "done"
    /\ "HOLE" \in DOMAIN c_out
    /\ \E i, j \in 1..Len(c_out["HOLE"].rows) :
        /\ c_out["HOLE"].rows[i].GIU_NO # c_out["HOLE"].rows[j].GIU_NO
        /\ c_out["HOLE"].rows[i].HOLE_ID = c_out["HOLE"].rows[j].HOLE_ID

\* C8: the result holds, for every group, the rows of that group from every
\* file that has it, in file order and then within-file row order; a row of
\* the i-th file carries GIU_NO = base_i and, where the group has HOLE_ID,
\* GIU_HOLE_ID = GIU_NO_HOLE_ID; a group missing from some files is no error.
C8_ConcatInFileOrder ==
    c_kind = "done" =>
        /\ \A g \in SourceGroups : SourceRows(g, 1) # <<>> => g \in DOMAIN c_out
        /\ \A g \in DOMAIN c_out :
            LET src == SourceRows(g, 1)
                out == c_out[g].rows
            IN  /\ Len(out) = Len(src)
                /\ \A k \in 1..Len(out) : StampedAs(out[k], src[k].row, src[k].file)

\* C8 witness: two files, the second alone has PROJ, both have HOLE rows, the
\* first more than one and in an order that is not the alphabetical one
C8_Witness ==
    /\ c_kind = "done"
    /\ Len(c_in.uploaded_files) = 2
    /\ "PROJ" \notin DOMAIN c_in.uploaded_files[1].df_dict
    /\ "PROJ" \in DOMAIN c_out
    /\ "HOLE" \in DOMAIN c_out
    /\ Len(c_out["HOLE"].rows) = 3
    /\ c_out["HOLE"].rows[1].HOLE_ID = "BH1"
    /\ c_out["HOLE"].rows[2].HOLE_ID = "2_BH1"
    /\ c_out["HOLE"].rows[3].GIU_NO = c_in.giu_number \o "_2"

-----------------------------------------------------------------------------
(* Depth-interval merger: combine_ags_data.  A cell of a sheet or of the   *)
(* master table is <<v>>, or <<>> for NaN; depths are whole numbers.       *)

SourceGroups5 == <<"CORE", "DETL", "FRAC", "GEOL", "WETH">>

\* the depth columns of each sheet
TopCol(g)  == IF g = "CORE" THEN "CORE_TOP" ELSE g \o "_TOP"
BaseCol(g) == IF g = "CORE" THEN "CORE_BOT" ELSE g \o "_BASE"

\* the attribute columns copied from each sheet: <<source column, master column>>
FillCols(g) ==
    CASE g = "CORE" -> {<<"CORE_RQD", "RQD">>, <<"CORE_PREC", "TCR">>}
      [] g = "DETL" -> {<<"DETL_DESC", "Details">>}
      [] g = "FRAC" -> {<<"FRAC_FI", "FI">>}
      [] g = "GEOL" -> {<<"GEOL_LEG", "GEOL">>, <<"GEOL_DESC", "GEOL_DESC">>}
      [] g = "WETH" -> {<<"WETH_GRAD", "WETH_GRAD">>}

\* group_list of lines 71-74, as a set
group_list(selected_groups) ==
    IF selected_groups = <<>>
    THEN {"HOLE", "CORE", "DETL", "WETH", "FRAC", "GEOL"}
    ELSE {"HOLE"} \cup {selected_groups[i] : i \in 1..Len(selected_groups)}

\* the rows of sheet g of the file for the borehole of the HOLE row hole
HoleRows(file, g, hole) ==
    SelectSeq(file.sheets[g],
              LAMBDA r : r.HOLE_ID = hole.HOLE_ID /\ r.GIU_NO = hole.GIU_NO)

RECURSIVE all_depths(_, _, _, _)
\* lines 105-140: the TOP and BASE cells of the borehole's rows, sheet by sheet
all_depths(file, groups, hole, i) ==
    IF i > Len(SourceGroups5) THEN {}
    ELSE LET g    == SourceGroups5[i]
             rows == IF g \in groups THEN HoleRows(file, g, hole) ELSE <<>>
         IN  {rows[k][TopCol(g)] : k \in 1..Len(rows)}
             \cup {rows[k][BaseCol(g)] : k \in 1..Len(rows)}
             \cup all_depths(file, groups, hole, i + 1)

RECURSIVE Sorted(_)
\* the ascending list of a set of numbers
Sorted(S) ==
    IF S = {} THEN <<>>
    ELSE LET least == CHOOSE x \in S : \A y \in S : x <= y
         IN  <<least>> \o Sorted(S \ {least})

\* lines 143-146: depth, the sorted distinct depths without the NaN
Breakpoints(cells) == Sorted({c[1] : c \in {x \in cells : x # <<>>}})

\* the empty master row: the fourteen columns of lines 77-81
MasterRow(giu_hole_id, giu_no, hole_id, from, to) ==
    [GIU_HOLE_ID |-> giu_hole_id, GIU_NO |-> giu_no, HOLE_ID |-> hole_id,
     DEPTH_FROM |-> from, DEPTH_TO |-> to, THICKNESS_M |-> to - from,
     GEOL |-> <<>>, GEOL_DESC |-> <<>>, TCR |-> <<>>, RQD |-> <<>>,
     WETH_GRAD |-> <<>>, WETH |-> <<>>, FI |-> <<>>, Details |-> <<>>]

\* lines 151-162: the interval rows of one borehole
IntervalRows(hole, depth) ==
    [d \in 1..(Len(depth) - 1) |->
        MasterRow(hole.GIU_NO \o "_" \o hole.HOLE_ID, hole.GIU_NO, hole.HOLE_ID,
                  depth[d], depth[d + 1])]

\* Series.between(top, base, inclusive='left'); a NaN bound matches nothing
BetweenLeft(x, top, base) ==
    top # <<>> /\ base # <<>> /\ top[1] <= x /\ x < base[1]

\* one source row copied onto the rows of df that its mask selects
FillFrom(df, g, src, hole) ==
    [i \in 1..Len(df) |->
        IF /\ df[i].HOLE_ID = hole.HOLE_ID
           /\ df[i].GIU_NO = hole.GIU_NO
           /\ BetweenLeft(df[i].DEPTH_FROM, src[TopCol(g)], src[BaseCol(g)])
        THEN [c \in DOMAIN df[i] |->
                 IF \E p \in FillCols(g) : p[2] = c
                 THEN src[(CHOOSE p \in FillCols(g) : p[2] = c)[1]]
                 ELSE df[i][c]]
        ELSE df[i]]

RECURSIVE FillRows(_, _, _, _, _)
\* "for c in range(len(core))": the rows of one sheet in sheet order
FillRows(df, g, rows, hole, k) ==
    IF k > Len(rows) THEN df
    ELSE FillRows(FillFrom(df, g, rows[k], hole), g, rows, hole, k + 1)

\* lines 226-232 on one grade, for the compound labels the code names
SimplifyGrade(g) ==
    IF g \in {<<"V/VI">>, <<"VI/V">>} THEN <<"VI">>
    ELSE IF g \in {<<"IV/V">>, <<"V/IV">>} THEN <<"V">>
    ELSE IF g \in {<<"III/IV">>, <<"IV/III">>} THEN <<"IV">>
    ELSE IF g \in {<<"II/III">>, <<"III/II">>} THEN <<"III">>
    ELSE IF g \in {<<"I/II">>, <<"II/I">>} THEN <<"II">>
    ELSE g

SimplifyWeth(df) ==
    [i \in 1..Len(df) |-> [df[i] EXCEPT !.WETH = SimplifyGrade(df[i].WETH_GRAD)]]

RECURSIVE FillGroups(_, _, _, _, _)
\* lines 164-232: the sheets in the order CORE, DETL, FRAC, GEOL, WETH
FillGroups(df, file, groups, hole, i) ==
    IF i > Len(SourceGroups5) THEN df
    ELSE LET g      == SourceGroups5[i]
             filled == IF g \in groups
                       THEN FillRows(df, g, HoleRows(file, g, hole), hole, 1)
                       ELSE df
             after  == IF g = "WETH" /\ g \in groups THEN SimplifyWeth(filled) ELSE filled
         IN  FillGroups(after, file, groups, hole, i + 1)

MaxSrcRows == 2

Borehole(hole_id) == [GIU_NO |-> "A_1", HOLE_ID |-> hole_id]

\* HOLE sheets: none or empty, one borehole, two, and one listed twice
HoleSheets ==
    {<<>>, <<Borehole("BH1")>>, <<Borehole("BH1"), Borehole("BH2")>>,
     <<Borehole("BH1"), Borehole("BH1")>>}

DepthPairs == {<<(<<0>>), (<<1>>)>>, <<(<<1>>), (<<2>>)>>, <<(<<0>>), (<<2>>)>>, <<(<<>>), (<<1>>)>>}

\* rows of the GEOL and WETH sheets
SrcRows ==
    {[sheet |-> "GEOL",
      row |-> [GIU_NO |-> "A_1", HOLE_ID |-> h, GEOL_TOP |-> d[1], GEOL_BASE |-> d[2],
               GEOL_LEG |-> IF d[1] = <<0>> THEN <<"L0">> ELSE <<"L1">>,
               GEOL_DESC |-> <<"desc">>]] : h \in {"BH1", "BH2"}, d \in DepthPairs}
    \cup
    {[sheet |-> "WETH",
      row |-> [GIU_NO |-> "A_1", HOLE_ID |-> h, WETH_TOP |-> d[1], WETH_BASE |-> d[2],
               WETH_GRAD |-> IF d[1] = <<0>> THEN <<"II">> ELSE <<"III/IV">>]] :
        h \in {"BH1", "BH2"}, d \in DepthPairs}

\* the rows of one sheet, in sheet order
SheetOf(rows, g) ==
    LET mine == SelectSeq(rows, LAMBDA x : x.sheet = g)
    IN  [k \in 1..Len(mine) |-> mine[k].row]

\* an Excel file: its HOLE sheet and its other sheets; CORE, DETL and FRAC
\* hold no rows, and the file may lack the CORE sheet
ExcelFile(hole_sheet, rows, present) ==
    [HOLE |-> hole_sheet,
     sheets |-> [g \in present |-> SheetOf(rows, g)]]

AllSheets == {"CORE", "DETL", "FRAC", "GEOL", "WETH"}

ExcelFiles ==
    {ExcelFile(hs, rows, AllSheets) : hs \in HoleSheets, rows \in SeqsUpTo(SrcRows, MaxSrcRows)}
    \cup {ExcelFile(hs, <<>>, AllSheets \ {"CORE"}) : hs \in HoleSheets}

\* a second upload of borehole BH1 of file tag A_1
RepeatFile ==
    ExcelFile(<<Borehole("BH1")>>,
              <<CHOOSE x \in SrcRows :
                    x.sheet = "GEOL" /\ x.row.HOLE_ID = "BH1"
                    /\ x.row.GEOL_TOP = <<1>> /\ x.row.GEOL_BASE = <<2>> >>,
              AllSheets)

\* another upload of that borehole, with a GEOL row for its top metre
RepeatFileTop ==
    ExcelFile(<<Borehole("BH1")>>,
              <<CHOOSE x \in SrcRows :
                    x.sheet = "GEOL" /\ x.row.HOLE_ID = "BH1"
                    /\ x.row.GEOL_TOP = <<0>> /\ x.row.GEOL_BASE = <<1>> >>,
              AllSheets)

CombineCalls ==
    [uploaded_excel_files : {<<f>> : f \in ExcelFiles}
                            \cup {<<f, RepeatFile>> : f \in ExcelFiles}
                            \cup {<<f, RepeatFileTop>> : f \in ExcelFiles},
     selected_groups : {<<>>, <<"GEOL">>}]

\* the call, up to the loop over the files
CombineCall ==
    /\ m_kind = "idle"
    /\ \E call \in CombineCalls : m_in' = call
    /\ m_kind' = "files"
    /\ m_file' = 0
    /\ m_bh' = 0
    /\ m_df' = <<>>
    /\ UNCHANGED nonm

\* "for file in uploaded_excel_files": the sheets are read; a file without
\* HOLE rows is passed over
CombineFile ==
    /\ m_kind = "files"
    /\ m_file < Len(m_in.uploaded_excel_files)
    /\ IF m_in.uploaded_excel_files[m_file + 1].HOLE = <<>>
       THEN /\ m_file' = m_file + 1
            /\ UNCHANGED m_kind
       ELSE /\ m_kind' = "holes"
            /\ UNCHANGED m_file
    /\ m_bh' = 0
    /\ UNCHANGED <<m_in, m_df>>
    /\ UNCHANGED nonm

\* "for bh in range(len(GIU_HOLE_ID_list))": one row of the HOLE sheet
CombineHole ==
    /\ m_kind = "holes"
    /\ LET file   == m_in.uploaded_excel_files[m_file + 1]
           groups == group_list(m_in.selected_groups) \cap AllSheets
       IN  /\ m_bh < Len(file.HOLE)
           /\ IF ~(groups \subseteq DOMAIN file.sheets)
              THEN \* a sheet that could not be read is an empty DataFrame,
                   \* and its ['HOLE_ID'] raises KeyError
                   /\ m_kind' = "raised"
                   /\ UNCHANGED <<m_bh, m_df>>
              ELSE LET hole  == file.HOLE[m_bh + 1]
                       depth == Breakpoints(all_depths(file, groups, hole, 1))
                   IN  /\ m_df' = IF Len(depth) < 2 THEN m_df
                                  ELSE FillGroups(m_df \o IntervalRows(hole, depth),
                                                  file, groups, hole, 1)
                       /\ m_bh' = m_bh + 1
                       /\ UNCHANGED m_kind
    /\ UNCHANGED <<m_in, m_file>>
    /\ UNCHANGED nonm

\* the HOLE sheet is exhausted: on to the next file
CombineEndFile ==
    /\ m_kind = "holes"
    /\ m_bh = Len(m_in.uploaded_excel_files[m_file + 1].HOLE)
    /\ m_kind' = "files"
    /\ m_file' = m_file + 1
    /\ UNCHANGED <<m_in, m_bh, m_df>>
    /\ UNCHANGED nonm

\* "return df"
CombineReturn ==
    /\ m_kind = "files"
    /\ m_file = Len(m_in.uploaded_excel_files)
    /\ m_kind' = "done"
    /\ UNCHANGED <<m_in, m_file, m_bh, m_df>>
    /\ UNCHANGED nonm

MNext ==
    \/ CombineCall
    \/ CombineFile
    \/ CombineHole
    \/ CombineEndFile
    \/ CombineReturn

SpecCombine == Init /\ [][MNext]_vars

-----------------------------------------------------------------------------
(* Properties of the depth-interval merger                                 *)

\* the positions in df of the interval rows of a borehole
RowsOf(id) == {i \in 1..Len(m_df) : m_df[i].GIU_HOLE_ID = id}

\* within the rows S: no two intervals overlap, and every interval but the
\* deepest ends where the next one by DEPTH_FROM starts
Contiguous(S) ==
    /\ \A i \in S, j \in S :
        i # j => \/ m_df[i].DEPTH_TO <= m_df[j].DEPTH_FROM
                 \/ m_df[j].DEPTH_TO <= m_df[i].DEPTH_FROM
    /\ \A i \in S :
        (\E j \in S : m_df[j].DEPTH_FROM > m_df[i].DEPTH_FROM)
            => \E j \in S : m_df[j].DEPTH_FROM = m_df[i].DEPTH_TO

\* C1: in the interval table that combine_ags_data returns, the interval
\* rows of every borehole are strictly contiguous and non-overlapping,
\* whatever sheets were supplied.
C1_IntervalsContiguous ==
    m_kind = "done" =>
        \A id \in {m_df[i].GIU_HOLE_ID : i \in 1..Len(m_df)} : Contiguous(RowsOf(id))

\* the groups of the call that are filled from
FilledGroups == group_list(m_in.selected_groups) \cap AllSheets

\* the uploaded files whose HOLE sheet lists the borehole of the interval row
FilesOf(row) ==
    {f \in {m_in.uploaded_excel_files[i] : i \in 1..Len(m_in.uploaded_excel_files)} :
        \E b \in 1..Len(f.HOLE) :
            f.HOLE[b].HOLE_ID = row.HOLE_ID /\ f.HOLE[b].GIU_NO = row.GIU_NO}

\* the source rows of group g that belong to the borehole of the interval
\* row and cover its DEPTH_FROM
Covering(row, g) ==
    UNION {{f.sheets[g][k] : k \in {n \in 1..Len(f.sheets[g]) :
                /\ f.sheets[g][n].HOLE_ID = row.HOLE_ID
                /\ f.sheets[g][n].GIU_NO = row.GIU_NO
                /\ BetweenLeft(row.DEPTH_FROM, f.sheets[g][n][TopCol(g)],
                               f.sheets[g][n][BaseCol(g)])}} :
           f \in FilesOf(row)}

\* the attributes of group g on the interval row are those of the source row
HasAttributesOf(row, g, src) == \A p \in FillCols(g) : row[p[2]] = src[p[1]]

\* C21: in the table combine_ags_data returns, every interval row carries,
\* for every selected group, the attributes of a source row of its borehole
\* that covers its DEPTH_FROM (top <= DEPTH_FROM < base), and carries none
\* when no source row of the group covers it
C21_BackFillFromCoveringRow ==
    m_kind = "done" =>
        \A i \in 1..Len(m_df), g \in FilledGroups :
            IF Covering(m_df[i], g) = {}
            THEN \A p \in FillCols(g) : m_df[i][p[2]] = <<>>
            ELSE \E src \in Covering(m_df[i], g) : HasAttributesOf(m_df[i], g, src)

\* the boreholes the HOLE sheets of the call list
ListedBoreholes ==
    UNION {{f.HOLE[b] : b \in 1..Len(f.HOLE)} :
           f \in {m_in.uploaded_excel_files[i] : i \in 1..Len(m_in.uploaded_excel_files)}}

\* the numeric top and base depths of the borehole in the selected groups
NumericDepths(hole) ==
    LET cells == UNION {UNION {{f.sheets[g][k][TopCol(g)], f.sheets[g][k][BaseCol(g)]} :
                                  k \in {n \in 1..Len(f.sheets[g]) :
                                            /\ f.sheets[g][n].HOLE_ID = hole.HOLE_ID
                                            /\ f.sheets[g][n].GIU_NO = hole.GIU_NO}} :
                        f \in FilesOf(hole), g \in FilledGroups}
    IN  {c[1] : c \in {x \in cells : x # <<>>}}

\* a and b are neighbours in the sorted depths D
ConsecutivePair(D, a, b) ==
    a \in D /\ b \in D /\ a < b /\ ~\E c \in D : a < c /\ c < b

\* C22: in the table combine_ags_data returns, every listed borehole has
\* exactly one interval row per consecutive pair of its sorted distinct
\* numeric depths and no other row, each row with THICKNESS_M = DEPTH_TO -
\* DEPTH_FROM > 0; a borehole with fewer than two depths has no row
C22_OneRowPerConsecutivePair ==
    m_kind = "done" =>
        \A hole \in ListedBoreholes :
            LET D    == NumericDepths(hole)
                rows == {i \in 1..Len(m_df) : /\ m_df[i].HOLE_ID = hole.HOLE_ID
                                              /\ m_df[i].GIU_NO = hole.GIU_NO}
            IN  /\ \A i \in rows :
                      /\ ConsecutivePair(D, m_df[i].DEPTH_FROM, m_df[i].DEPTH_TO)
                      /\ m_df[i].THICKNESS_M = m_df[i].DEPTH_TO - m_df[i].DEPTH_FROM
                      /\ m_df[i].THICKNESS_M > 0
                /\ \A a, b \in D :
                      ConsecutivePair(D, a, b) =>
                          Cardinality({i \in rows : m_df[i].DEPTH_FROM = a
                                                    /\ m_df[i].DEPTH_TO = b}) = 1

\* C29: in the table combine_ags_data returns no interval straddles the base
\* of a source row: an interval row that starts inside a source row of a
\* selected group of its borehole (top <= DEPTH_FROM < base) ends at or
\* above the base of that source row
C29_NoIntervalStraddles ==
    m_kind = "done" =>
        \A i \in 1..Len(m_df), g \in FilledGroups :
            \A src \in Covering(m_df[i], g) :
                m_df[i].DEPTH_TO <= src[BaseCol(g)][1]

-----------------------------------------------------------------------------
(* All-or-nothing per file                                                 *)

\* the parse of the file failed: the parser raised, or a group was not exported
ParseFailed(file) == file.exc # "" \/ file.dropped # {}

\* the groups of the consolidated result that hold a row of the i-th file
ContributedGroups(i) ==
    {g \in DOMAIN c_out :
        \E k \in 1..Len(c_out[g].rows) :
            c_out[g].rows[k].GIU_NO = c_in.giu_number \o "_" \o ToString(i)}

\* C14: a file whose parse failed has no row in any consolidated table,
\* neither a part of its rows nor a part of its groups.
C14_AllOrNothingPerFile ==
    c_kind # "idle" =>
        \A i \in 1..Len(c_in.uploaded_files) :
            ParseFailed(c_in.uploaded_files[i]) => ContributedGroups(i) = {}

-----------------------------------------------------------------------------
(* AGSProcessor: src/ags_processor/processor.py                            *)

MaxPaths == 2
MaxReads == 2

\* what _parse_with_validation gives for a file of the consolidator's inputs:
\* the tables, and a WARNING for a short row, an ERROR when the parser raised
ParsedWithValidation(file) ==
    [groups   |-> file.df_dict,
     warnings |-> (IF file.dropped # {} THEN <<"WARNING">> ELSE <<>>)
                  \o (IF file.exc # "" THEN <<"ERROR: Failed to parse file">> ELSE <<>>)]

\* files on disk: path, Path(path).name and content
DiskFile(path, name, data, exc) ==
    [path |-> path, name |-> name, content |-> ParsedFile(data, exc)]

DiskFiles ==
    {DiskFile("d/f1.ags", "f1.ags", GoodData, ""),
     DiskFile("d/f2.ags", "f2.ags", GoodData, ""),
     DiskFile("d/bad.ags", "bad.ags", GoodData, "ValueError"),
     DiskFile("d/short.ags", "short.ags", RaggedData, "")}

\* self._detect_ags_version(filepath): AGSProcessor defines no such method and
\* has no base class or __getattr__, so the attribute lookup raises
detect_ags_version(file) == "AttributeError"

\* the except branch of read_file: errors[str(filepath)] = [str(e)], return {}
ReadFileExcept(self, file, e) ==
    [self |-> [self EXCEPT !.errors = Put(self.errors, file.path, <<e>>)],
     groups |-> <<>>]

\* lines 132-160 of read_file, with the parsed groups and warnings at hand
ReadFileStore(self, file, ags_version, parsed) ==
    LET groups == parsed.groups
        errors == IF parsed.warnings = <<>> THEN self.errors
                  ELSE Put(self.errors, file.name,
                           (IF file.name \in DOMAIN self.errors
                            THEN self.errors[file.name] ELSE <<>>) \o parsed.warnings)
        processed == IF \E k \in 1..Len(self.processed_files) :
                            self.processed_files[k] = file.name
                     THEN self.processed_files
                     ELSE Append(self.processed_files, file.name)
        tables == [g \in DOMAIN self.tables \cup DOMAIN groups |->
                      IF g \notin DOMAIN groups THEN self.tables[g]
                      ELSE IF g \in DOMAIN self.tables
                      THEN pd_concat(<<self.tables[g], groups[g]>>, 1)
                      ELSE groups[g]]
    IN  [self |-> [tables |-> tables,
                   file_data |-> Put(self.file_data, file.name, groups),
                   errors |-> errors,
                   processed_files |-> processed,
                   file_versions |-> Put(self.file_versions, file.name, ags_version)],
         groups |-> groups]

\* read_file(filepath): the processor afterwards and the groups returned
read_file(self, file) ==
    LET ags_version == detect_ags_version(file)
    IN  IF ags_version = "AttributeError"
        THEN ReadFileExcept(self, file,
                 "'AGSProcessor' object has no attribute '_detect_ags_version'")
        ELSE IF ags_version = "AGS3"
        THEN ReadFileExcept(self, file,
                 "AGS3 parser failed: Legacy ags_3_reader module not found")
        ELSE ReadFileStore(self, file, ags_version, ParsedWithValidation(file.content))

RECURSIVE SumOver(_, _)
\* sum(len(x) for x in d.values())
SumOver(d, keys) ==
    IF keys = {} THEN 0
    ELSE LET k == CHOOSE k \in keys : TRUE
         IN  Len(d[k]) + SumOver(d, keys \ {k})

\* get_file_summary()
get_file_summary(self) ==
    [total_files |-> Len(self.processed_files),
     total_tables |-> Cardinality(DOMAIN self.tables),
     total_records |-> SumOver([g \in DOMAIN self.tables |-> self.tables[g].rows],
                               DOMAIN self.tables),
     total_errors |-> SumOver(self.errors, DOMAIN self.errors),
     files_by_version |-> [v \in (IF self.processed_files = <<>> THEN {} ELSE {"AGS4"}) |->
                              Len(self.processed_files)],
     files |-> self.processed_files]

\* a single read_file call of the application
ProcReadFile ==
    /\ a_kind = "idle"
    /\ a_reads < MaxReads
    /\ \E file \in DiskFiles : a_self' = read_file(a_self, file).self
    /\ a_reads' = a_reads + 1
    /\ UNCHANGED <<a_kind, a_in, a_i, a_results, a_summary>>
    /\ UNCHANGED nona

\* read_multiple_files(filepaths, skip_invalid), up to its loop
ProcMultiCall ==
    /\ a_kind = "idle"
    /\ a_reads < MaxReads
    /\ \E filepaths \in SeqsUpTo(DiskFiles, MaxPaths), skip_invalid \in BOOLEAN :
        a_in' = [filepaths |-> filepaths, skip_invalid |-> skip_invalid]
    /\ a_kind' = "loop"
    /\ a_i' = 0
    /\ a_results' = <<>>
    /\ a_reads' = a_reads + 1
    /\ UNCHANGED <<a_self, a_summary>>
    /\ UNCHANGED nona

\* one turn of its loop; read_file catches every Exception itself, so the
\* except branch of the loop is never entered, whatever skip_invalid is
ProcMultiFile ==
    /\ a_kind = "loop"
    /\ a_i < Len(a_in.filepaths)
    /\ LET file == a_in.filepaths[a_i + 1]
           r    == read_file(a_self, file)
       IN  /\ a_self' = r.self
           /\ a_results' = IF DOMAIN r.groups # {}
                           THEN Put(a_results, file.name, r.groups)
                           ELSE a_results
    /\ a_i' = a_i + 1
    /\ UNCHANGED <<a_kind, a_in, a_reads, a_summary>>
    /\ UNCHANGED nona

\* return results
ProcMultiReturn ==
    /\ a_kind = "loop"
    /\ a_i = Len(a_in.filepaths)
    /\ a_kind' = "returned"
    /\ a_summary' = <<>>
    /\ UNCHANGED <<a_self, a_in, a_i, a_results, a_reads>>
    /\ UNCHANGED nona

\* get_file_summary() after the files were read
ProcSummary ==
    /\ a_kind = "returned"
    /\ a_summary = <<>>
    /\ a_summary' = get_file_summary(a_self)
    /\ UNCHANGED <<a_self, a_kind, a_in, a_i, a_results, a_reads>>
    /\ UNCHANGED nona

\* the application goes on with the same processor
ProcContinue ==
    /\ a_kind = "returned"
    /\ a_summary # <<>>
    /\ a_kind' = "idle"
    /\ UNCHANGED <<a_self, a_in, a_i, a_results, a_reads, a_summary>>
    /\ UNCHANGED nona

ANext ==
    \/ ProcReadFile
    \/ ProcMultiCall
    \/ ProcMultiFile
    \/ ProcMultiReturn
    \/ ProcSummary
    \/ ProcContinue

SpecProc == Init /\ [][ANext]_vars

-----------------------------------------------------------------------------
(* Properties of the AGSProcessor                                          *)

\* the file parses: AGS4_to_dict returns and every group becomes a table
WellFormed(file) == file.content.exc = "" /\ file.content.dropped = {}

\* the paths of the call are pairwise distinct
DistinctPaths(filepaths) ==
    \A i, j \in 1..Len(filepaths) : filepaths[i].path = filepaths[j].path => i = j

\* the consolidated table of group g holds at least the rows of the file
Merged(file, g) ==
    /\ g \in DOMAIN a_self.tables
    /\ \A k \in 1..Len(file.content.df_dict[g].rows) :
          \E n \in 1..Len(a_self.tables[g].rows) :
              a_self.tables[g].rows[n] = file.content.df_dict[g].rows[k]

\* C15: when read_multiple_files(skip_invalid=True) has returned, every file
\* that fails to parse has a diagnostic in errors under its source, and every
\* well-formed file that comes after a failing one has its rows in the
\* consolidated tables
C15_SkipInvalidContinues ==
    (a_kind = "returned" /\ a_in.skip_invalid) =>
        \A i \in 1..Len(a_in.filepaths) :
            LET file == a_in.filepaths[i]
            IN  /\ file.content.exc # "" =>
                      \/ file.path \in DOMAIN a_self.errors
                      \/ file.name \in DOMAIN a_self.errors
                /\ (/\ WellFormed(file)
                    /\ \E j \in 1..(i - 1) : a_in.filepaths[j].content.exc # "") =>
                      \A g \in DOMAIN file.content.df_dict : Merged(file, g)

\* C18: when read_multiple_files has returned and its summary was taken, for
\* k distinct well-formed files on a fresh processor the mapping has k
\* entries, total_files is k and files_by_version['AGS4'] is k
C18_SummaryCountsFiles ==
    (/\ a_kind = "returned"
     /\ a_summary # <<>>
     /\ a_reads = 1
     /\ Len(a_in.filepaths) > 0
     /\ DistinctPaths(a_in.filepaths)
     /\ \A i \in 1..Len(a_in.filepaths) : WellFormed(a_in.filepaths[i]))
    => LET k == Len(a_in.filepaths)
       IN  /\ Cardinality(DOMAIN a_results) = k
           /\ a_summary.total_files = k
           /\ "AGS4" \in DOMAIN a_summary.files_by_version
           /\ a_summary.files_by_version["AGS4"] = k

\* C30: with skip_invalid=False read_multiple_files does not go past a file
\* that fails to parse: the failure is raised, so the loop has taken, and the
\* call has returned after, only files that parse
C30_FailureRaised ==
    (a_kind \in {"loop", "returned"} /\ ~a_in.skip_invalid) =>
        \A i \in 1..a_i : a_in.filepaths[i].content.exc = ""

-----------------------------------------------------------------------------
(* Missing columns                                                         *)

\* the file has every sheet combine_ags_data reads beside HOLE; a sheet that
\* is not there is read as a DataFrame without any column
HasRequiredSheets(file) ==
    (group_list(m_in.selected_groups) \cap AllSheets) \subseteq DOMAIN file.sheets

\* C16: combine_ags_data returns a result only when no input table lacks a
\* column it requires; with a sheet of the group list missing it raises
C16_MissingColumnRaises ==
    m_kind = "done" =>
        \A i \in 1..Len(m_in.uploaded_excel_files) :
            HasRequiredSheets(m_in.uploaded_excel_files[i])

-----------------------------------------------------------------------------
(* Ownership of the tables.  The DataFrames are objects on a heap and a    *)
(* name is a reference into it, so that "df = df.copy()" and a column      *)
(* assignment "df[col] = ..." act on the object the name refers to.        *)

MaxHeap == 4

\* a plausible slip of "df = df.copy()": the name keeps the caller's object
df_share(heap, ref) == [heap |-> heap, ref |-> ref]

\* df.copy(): a new object with the same columns and values
df_copy(heap, ref) == [heap |-> Append(heap, heap[ref]), ref |-> Len(heap) + 1]

\* df[col] = ..., row by row: F gives the row with the new cells
Assign(heap, ref, cols, F(_)) ==
    [heap EXCEPT ![ref] = Table(@.cols \cup cols,
                                [i \in 1..Len(@.rows) |-> F(@.rows[i])])]

\* the outcome of a call: the heap afterwards and the reference returned
Returned(heap, ref) == [heap |-> heap, ret |-> ref]
Raised(heap)        == [heap |-> heap, ret |-> 0]

\* weth_grade_to_numeric(df)
HeapWeth(heap, ref) ==
    LET df == df_copy(heap, ref)
    IN  IF "WETH_GRAD" \notin df.heap[df.ref].cols
        THEN Raised(df.heap)
        ELSE Returned(Assign(df.heap, df.ref, {"WETH_GRAD_NUM"}, weth_grade_to_numeric),
                      df.ref)

\* rock_material_criteria(df, include_weak_zones); without the numeric grade
\* sub_df['WETH_GRAD_NUM'] raises KeyError
HeapRockMat(heap, ref, include_weak_zones) ==
    LET sub_df == df_copy(heap, ref)
        cols   == sub_df.heap[sub_df.ref].cols
        Rock(row) == rock_material_criteria(row, cols, include_weak_zones)
    IN  IF ~({"WETH_GRAD_NUM", "WETH_GRAD"} \subseteq cols)
        THEN Raised(Assign(sub_df.heap, sub_df.ref, {"Mod_Weak", "Weak", "NR"},
                           LAMBDA row : row))
        ELSE Returned(Assign(sub_df.heap, sub_df.ref,
                             {"Mod_Weak", "Weak", "NR", "rock_mat"}, Rock),
                      sub_df.ref)

\* calculate_rockhead(df, ...) as far as it writes: lines 351-373; the scan
\* of lines 375-401 only reads
HeapRockhead(heap, ref, tcr_threshold, include_weak) ==
    LET df   == df_copy(heap, ref)
        weth == HeapWeth(df.heap, df.ref)
    IN  IF weth.ret = 0 THEN Raised(weth.heap)
        ELSE LET mat == HeapRockMat(weth.heap, weth.ret, include_weak)
             IN  IF mat.ret = 0 THEN Raised(mat.heap)
                 ELSE LET cols == mat.heap[mat.ret].cols
                          Tcr(row) == rock_TCR(row, cols, tcr_threshold)
                          done == Assign(mat.heap, mat.ret, {"rock_TCR"}, Tcr)
                      IN  IF HoleIdCol(cols) = <<>> THEN Raised(done)
                          ELSE Returned(done, mat.ret)

\* combiners.calculate_q_value(df) with its default parameters
HeapQTable(heap, ref) ==
    LET df == df_copy(heap, ref)
        Q(row) == LET q == QTimes(QTimes(SeriesDiv(ToNumericCoerce(row.RQD), 9), 1, 1), 1, 1)
                  IN  Put(Put(Put(row, "RQD_numeric", ToNumericCoerce(row.RQD)),
                              "Q_value", q), "Rock_Quality", Rock_Quality(q))
    IN  IF "RQD" \notin df.heap[df.ref].cols
        THEN Raised(df.heap)
        ELSE Returned(Assign(df.heap, df.ref, {"RQD_numeric", "Q_value", "Rock_Quality"}, Q),
                      df.ref)

\* calculate_q_values_bulk(data_df): the Q_VALUE column of the copy
HeapQBulk(heap, ref) ==
    LET result_df == df_copy(heap, ref)
        Q(row) == Put(row, "Q_VALUE", BulkRowStep(row, <<>>)[1])
    IN  IF ~(QCols \subseteq heap[ref].cols)
        THEN Raised(result_df.heap)
        ELSE Returned(Assign(result_df.heap, result_df.ref, {"Q_VALUE"}, Q), result_df.ref)

\* concat_ags_files on one file with the one table df: lines 42-52
HeapConcat(heap, ref, giu_number, name) ==
    IF IsEmptyDf(heap[ref]) THEN Raised(heap)
    ELSE LET temp == df_copy(heap, ref)
             Stamp(row) == StampRow(row, per_file_giu(giu_number, 0), name)
             stamped == Assign(temp.heap, temp.ref,
                               {"GIU_NO", "AGS_FILE"}
                                   \cup (IF "HOLE_ID" \in heap[ref].cols
                                         THEN {"GIU_HOLE_ID"} ELSE {}),
                               Stamp)
         IN  Returned(Append(stamped, pd_concat(<<stamped[temp.ref]>>, 1)),
                      Len(stamped) + 1)

\* the tables a caller starts from: three rows of the rockhead scenario,
\* with and without the grade and hole id columns, Q-value rows, HOLE tables
CallerTables ==
    {Table(cols, SubSeq(Scenario, 3, 5)) :
        cols \in {ScenarioCols, ScenarioCols \ {"WETH_GRAD"}, ScenarioCols \ {"HOLE_ID"}}}
    \cup {Table(cols, <<row>>) : cols \in {QCols, QCols \ {"SRF"}}, row \in QRows}
    \cup HoleTables

\* the caller makes a table and drops those of before
OwnLoad ==
    /\ \E df \in CallerTables : h_heap' = <<df>>
    /\ h_op' = "load"
    /\ h_arg' = 0
    /\ h_ret' = 1
    /\ UNCHANGED nonh

\* a call of one of the stages on a table the caller holds
OwnCall(op, out, ref) ==
    /\ Len(out.heap) <= MaxHeap
    /\ h_heap' = out.heap
    /\ h_op' = op
    /\ h_arg' = ref
    /\ h_ret' = out.ret
    /\ UNCHANGED nonh

OwnWeth ==
    \E ref \in DOMAIN h_heap : OwnCall("weth_grade_to_numeric", HeapWeth(h_heap, ref), ref)

OwnRockMat ==
    \E ref \in DOMAIN h_heap, include_weak_zones \in BOOLEAN :
        OwnCall("rock_material_criteria", HeapRockMat(h_heap, ref, include_weak_zones), ref)

OwnRockhead ==
    \E ref \in DOMAIN h_heap :
        OwnCall("calculate_rockhead", HeapRockhead(h_heap, ref, 85, FALSE), ref)

OwnQTable ==
    \E ref \in DOMAIN h_heap : OwnCall("calculate_q_value", HeapQTable(h_heap, ref), ref)

OwnQBulk ==
    \E ref \in DOMAIN h_heap : OwnCall("calculate_q_values_bulk", HeapQBulk(h_heap, ref), ref)

OwnConcat ==
    \E ref \in DOMAIN h_heap :
        OwnCall("concat_ags_files", HeapConcat(h_heap, ref, "A", "a.ags"), ref)

HNext ==
    \/ OwnLoad
    \/ OwnWeth
    \/ OwnRockMat
    \/ OwnRockhead
    \/ OwnQTable
    \/ OwnQBulk
    \/ OwnConcat

SpecOwn == Init /\ [][HNext]_vars

\* C17: a call of concat_ags_files, weth_grade_to_numeric,
\* rock_material_criteria, calculate_rockhead or a Q-value form, whether it
\* returns or raises, leaves every table that existed before the call with
\* the columns and values it had
C17_InputsNotMutated ==
    [][h_op' # "load" =>
          \A ref \in DOMAIN h_heap :
              ref \in DOMAIN h_heap' /\ h_heap'[ref] = h_heap[ref]]_vars

\* C17 witness: a stage returned a table that differs from the one it was
\* given, which is still on the heap
C17_Witness ==
    /\ h_op \notin {"none", "load"}
    /\ h_ret # 0
    /\ h_heap[h_ret] # h_heap[h_arg]

====
